---- MODULE Spec2Model ----
(***************************************************************************)
(* A model of the RimWorld XML validators of RWModBuilder                  *)
(* (src/src/utils/xml_validator_simple.py, class SimpleXMLValidator, and   *)
(* src/src/utils/enhanced_xml_validator.py, class EnhancedXMLValidator).   *)
(*                                                                         *)
(* An XML text is a sequence of tokens (XML declaration, start tag, end    *)
(* tag, character data); the character data of an element is a sequence of one-character  *)
(* strings.  ParseXML is what xml.etree.ElementTree.fromstring does with   *)
(* such a text: it builds the element tree or fails with a ParseError.     *)
(* The validator instance is the pair of lists self.errors/self.warnings.  *)
(* Python's None and "" are both the empty sequence: the code only tests   *)
(* their truthiness.                                                       *)
(***************************************************************************)
EXTENDS Integers, Sequences, FiniteSets, TLC

\* The validator instance (self.errors, self.warnings), the argument and the
\* return value of the most recent validation call, the report read since
\* that call (a sequence of at most one report), the call state, and the
\* history of the call before the most recent one (a sequence of at most one
\* record: its argument, its return value and the lists it left).
\* formatted is the text format_report made of that report (a sequence of
\* at most one text).  threads is the state of the callers that use the
\* instance at the same time.
VARIABLES errors, warnings, content, ret, report, phase, previous,
          formatted, threads

\* What a call on an EnhancedXMLValidator returned: result is a sequence of
\* at most one record (the method called and the dictionary it returned),
\* pretty a sequence of at most one text returned by format_xml.
VARIABLES result, pretty

\* ProjectManager: project is the loaded project as export_mod and
\* validate_project see it (current_project_path set or not, the folders
\* and files there, what the XML validator makes of each file), export the
\* invocation of export_mod in progress, disk what lies at the export path.
VARIABLES project, export, disk

\* CacheManager: self.max_size, self.cache, self.access_times (a dict, kept
\* in insertion order), the clock time.time() reads, and the operation
\* called last with the cache as it was before it.
VARIABLES max_size, cache, access_times, clock, last

\* ThreadPool: self.max_workers, self.running, self.task_queue, the worker
\* threads with the statement each is at, and how often each task was run.
VARIABLES max_workers, running, task_queue, workers, executed

EnhancedVars == <<result, pretty>>

ExportVars == <<project, export, disk>>

CacheVars == <<max_size, cache, access_times, clock, last>>

PoolVars == <<max_workers, running, task_queue, workers, executed>>

\* The state outside the SimpleXMLValidator instance and its callers.
Rest == <<EnhancedVars, ExportVars, CacheVars, PoolVars>>

vars == <<errors, warnings, content, ret, report, phase, previous,
          formatted, threads, Rest>>

----------------------------------------------------------------------------
\* Bounds of the model.

\* The longest packageId text, in characters.
MaxIdLen == 4
\* The most definitions under a Defs root.
MaxDefs == 2
\* The most definitions under a Defs root in a session of several calls.
MaxSessionDefs == 1
\* The most elements under the definition of a document of nested elements.
MaxWalk == 2
\* The most definitions in a Defs document of definitions of several types.
MaxTypedDefs == 2
\* The most definitions in a Defs document given to the enhanced validator.
MaxEnhancedDefs == 3
\* The most XML files under the Defs folder of a project.
MaxDefsFiles == 1
\* The largest max_size a CacheManager is built with.
MaxCacheSize == 2
\* The latest reading of time.time().
MaxClock == 3
\* The largest max_workers a ThreadPool is built with.
MaxWorkers == 2
\* The most threads a ThreadPool spawns in all.
MaxThreads == 3
\* The most tasks submitted to a ThreadPool.
MaxTasks == 2

----------------------------------------------------------------------------
\* Sequences.

RECURSIVE Flatten(_)
Flatten(ss) ==
    IF ss = <<>> THEN <<>> ELSE Head(ss) \o Flatten(Tail(ss))

Count(seq, x) == Cardinality({i \in 1..Len(seq) : seq[i] = x})

SeqsUpTo(S, n) == UNION {[1..k -> S] : k \in 0..n}

----------------------------------------------------------------------------
\* Characters and the regular expression of validate_package_id.

LowerCase == {"a", "b", "c", "d", "e", "f", "g", "h", "i", "j", "k", "l", "m",
              "n", "o", "p", "q", "r", "s", "t", "u", "v", "w", "x", "y", "z"}
UpperCase == {"A", "B", "C", "D", "E", "F", "G", "H", "I", "J", "K", "L", "M",
              "N", "O", "P", "Q", "R", "S", "T", "U", "V", "W", "X", "Y", "Z"}
Digits == {"0", "1", "2", "3", "4", "5", "6", "7", "8", "9"}

\* The class [a-zA-Z0-9_] of the pattern.
WordChar(c) == c \in LowerCase \cup UpperCase \cup Digits \cup {"_"}

\* [a-zA-Z0-9_]+\.[a-zA-Z0-9_]+ matching all of s.
BodyMatch(s) ==
    \E i \in 2..(Len(s) - 1) :
        /\ s[i] = "."
        /\ \A j \in (1..Len(s)) \ {i} : WordChar(s[j])

\* The pattern with the classes [a-z0-9_]: lowercase letters only.
re_match_lower(s) ==
    /\ \E i \in 2..(Len(s) - 1) :
           /\ s[i] = "."
           /\ \A j \in (1..Len(s)) \ {i} :
                  s[j] \in LowerCase \cup Digits \cup {"_"}

\* The pattern with the classes [a-zA-Z0-9]: no underscore.
re_match_alnum(s) ==
    /\ \E i \in 2..(Len(s) - 1) :
           /\ s[i] = "."
           /\ \A j \in (1..Len(s)) \ {i} :
                  s[j] \in LowerCase \cup UpperCase \cup Digits

\* re.match(r'^[a-zA-Z0-9_]+\.[a-zA-Z0-9_]+$', s): Python's $ matches at the
\* end of the text and also just before a newline that ends the text.
re_match(s) ==
    \/ BodyMatch(s)
    \/ /\ Len(s) >= 1
       /\ s[Len(s)] = "\n"
       /\ BodyMatch(SubSeq(s, 1, Len(s) - 1))

----------------------------------------------------------------------------
\* XML texts and xml.etree.ElementTree.

Open(t) == [k |-> "open", tag |-> t, s |-> <<>>]
Close(t) == [k |-> "close", tag |-> t, s |-> <<>>]
Text(s) == [k |-> "text", tag |-> "", s |-> s]
\* <?xml version="1.0"?>, with encoding="..." when enc is not empty.
Decl(enc) == [k |-> "decl", tag |-> "", s |-> enc]
\* <tag />, as ElementTree.tostring writes an element without content.
EmptyTag(t) == [k |-> "empty", tag |-> t, s |-> <<>>]

\* An Element: its tag, its text (the character data before its first
\* child) and its children in document order.
Elem(t, s, cs) == [tag |-> t, text |-> s, children |-> cs]

Whitespace == {" ", "\n"}

IsWhitespace(s) == \A i \in 1..Len(s) : s[i] \in Whitespace

ParseError(msg) == [ok |-> FALSE, root |-> <<>>, msg |-> <<msg>>]

\* The parser's scan from token i on: stack holds the elements still open,
\* root the finished document element, if any.
RECURSIVE Scan(_, _, _, _)
Scan(toks, i, stack, root) ==
    IF i > Len(toks)
    THEN IF stack # <<>> \/ root = <<>>
         THEN ParseError("no element found")
         ELSE [ok |-> TRUE, root |-> root, msg |-> <<>>]
    ELSE LET t == toks[i]
             n == Len(stack)
         IN  CASE t.k = "open" ->
                    IF n = 0 /\ root # <<>>
                    THEN ParseError("junk after document element")
                    ELSE Scan(toks, i + 1,
                              Append(stack, Elem(t.tag, <<>>, <<>>)), root)
               [] t.k = "close" ->
                    IF n = 0
                    THEN ParseError("not well-formed (invalid token)")
                    ELSE IF stack[n].tag # t.tag
                    THEN ParseError("mismatched tag")
                    ELSE IF n = 1
                    THEN Scan(toks, i + 1, <<>>, <<stack[1]>>)
                    ELSE Scan(toks, i + 1,
                              [SubSeq(stack, 1, n - 1) EXCEPT ![n - 1].children =
                                  Append(@, stack[n])],
                              root)
               [] t.k = "decl" ->
                    IF i = 1 THEN Scan(toks, i + 1, stack, root)
                    ELSE IF n = 0 /\ root # <<>>
                    THEN ParseError("junk after document element")
                    ELSE ParseError("XML or text declaration not at start of entity")
               [] t.k = "empty" ->
                    IF n = 0
                    THEN IF root # <<>>
                         THEN ParseError("junk after document element")
                         ELSE Scan(toks, i + 1, <<>>, <<Elem(t.tag, <<>>, <<>>)>>)
                    ELSE Scan(toks, i + 1,
                              [stack EXCEPT ![n].children =
                                  Append(@, Elem(t.tag, <<>>, <<>>))],
                              root)
               [] OTHER ->
                    IF n = 0
                    THEN IF IsWhitespace(t.s)
                         THEN Scan(toks, i + 1, stack, root)
                         ELSE IF root = <<>>
                         THEN ParseError("not well-formed (invalid token)")
                         ELSE ParseError("junk after document element")
                    ELSE IF stack[n].children = <<>>
                    THEN Scan(toks, i + 1,
                              [stack EXCEPT ![n].text = @ \o t.s], root)
                    ELSE Scan(toks, i + 1, stack, root)

\* ET.fromstring(content): [ok, root, msg]; root is <<the root element>>
\* when ok, msg the ParseError's message otherwise.
ParseXML(toks) == Scan(toks, 1, <<>>, <<>>)

\* Element.find(tag): the first child with that tag, as a sequence of at
\* most one element (<<>> is None).
Find(e, t) ==
    LET idx == {i \in 1..Len(e.children) : e.children[i].tag = t}
    IN  IF idx = {} THEN <<>>
        ELSE <<e.children[CHOOSE i \in idx : \A j \in idx : i <= j]>>

\* Element.findall(tag): the children with that tag, in order.
FindAll(e, t) == SelectSeq(e.children, LAMBDA c : c.tag = t)

----------------------------------------------------------------------------
\* SimpleXMLValidator.

\* One entry of self.errors or self.warnings: the kind of message and the
\* value formatted into it (a tag, a text or a path, as a sequence).
Msg(kind, arg) == [kind |-> kind, arg |-> arg]

rimworld_tags ==
    {"ModMetaData", "Defs", "ThingDef", "RecipeDef", "ResearchProjectDef",
     "PawnKindDef", "TraitDef", "FactionDef", "BiomeDef", "JobDef", "WorkGiverDef",
     "name", "author", "packageId", "description", "supportedVersions",
     "modDependencies", "incompatibleWith", "loadAfter", "loadBefore",
     "defName", "label", "thingClass", "category", "tickerType", "altitudeLayer",
     "passability", "pathCost", "useHitPoints", "selectable", "drawGUIOverlay",
     "rotatable", "fillPercent", "statBases", "costList", "graphicData",
     "researchPrerequisites", "constructionSkillPrerequisite", "designationCategory",
     "placingDraggableDimensions", "terrainAffordanceNeeded", "constructEffect",
     "repairEffect", "filthLeaving", "leaveResourcesWhenKilled",
     "resourcesFractionWhenDeconstructed",
     "MaxHitPoints", "WorkToBuild", "Flammability", "Beauty", "Mass", "MarketValue",
     "DeteriorationRate", "SellPriceFactor", "Comfort", "Nutrition", "FoodPoisonChance",
     "texPath", "graphicClass", "drawSize", "color", "colorTwo", "drawRotated",
     "allowFlip", "flipExtraRotation", "shadowData", "damageData",
     "jobString", "workSpeedStat", "workSkill", "effectWorking", "soundWorking",
     "workAmount", "unfinishedThingDef", "ingredients", "products", "recipeUsers",
     "researchPrerequisite", "skillRequirements", "workSkillLearnFactor",
     "baseCost", "techLevel", "prerequisites", "researchViewX", "researchViewY",
     "requiredResearchBuilding", "requiredResearchFacilities", "tab",
     "li", "count", "filter", "thingDefs", "categories", "stuffCategories"}

\* tag.endswith('Def'), for the tags of the model's documents.
EndsWithDef(t) ==
    t \in {"ThingDef", "RecipeDef", "ResearchProjectDef", "PawnKindDef",
           "TraitDef", "FactionDef", "BiomeDef", "JobDef", "WorkGiverDef",
           "unfinishedThingDef", "HediffDef"}

\* validate_xml_syntax without the two resets at its top.
validate_xml_syntax_keep(self, c) ==
    LET p == ParseXML(c)
    IN  IF p.ok
        THEN [self |-> self, ret |-> TRUE]
        ELSE [self |-> [self EXCEPT !.errors =
                            Append(@, Msg("SyntaxError", p.msg))],
              ret |-> FALSE]

\* validate_xml_syntax with the warnings left as they were.
validate_xml_syntax_warn(self, c) ==
    validate_xml_syntax_keep([self EXCEPT !.errors = <<>>], c)

\* validate_xml_syntax that reports no error on a ParseError.
validate_xml_syntax_silent(self, c) ==
    [self |-> [errors |-> <<>>, warnings |-> <<>>], ret |-> ParseXML(c).ok]

validate_xml_syntax(self, c) ==
    LET fresh == [errors |-> <<>>, warnings |-> <<>>]
        p == ParseXML(c)
    IN  IF p.ok
        THEN [self |-> fresh, ret |-> TRUE]
        ELSE [self |-> [fresh EXCEPT !.errors =
                            Append(@, Msg("SyntaxError", p.msg))],
              ret |-> FALSE]

validate_package_id(package_id) ==
    IF package_id = <<>> THEN FALSE ELSE re_match(package_id)

\* The list of required tags without 'author'.
required_tags_short == <<"name", "packageId", "supportedVersions">>

required_tags == <<"name", "author", "packageId", "supportedVersions">>

\* validate_mod_metadata with a supportedVersions without li as an error.
validate_mod_metadata_strict(self, root) ==
    LET missing == SelectSeq(required_tags, LAMBDA t : Find(root, t) = <<>>)
        e1 == [i \in 1..Len(missing) |-> Msg("MissingTag", <<missing[i]>>)]
        package_id_elem == Find(root, "packageId")
        e2 == IF package_id_elem # <<>>
                 /\ ~validate_package_id(package_id_elem[1].text)
              THEN <<Msg("BadPackageId", package_id_elem[1].text)>>
              ELSE <<>>
        supported_versions == Find(root, "supportedVersions")
        w == IF supported_versions # <<>>
                /\ Len(FindAll(supported_versions[1], "li")) = 0
             THEN <<Msg("EmptySupportedVersions", <<>>)>>
             ELSE <<>>
    IN  [errors |-> self.errors \o e1 \o e2 \o w, warnings |-> self.warnings]

validate_mod_metadata(self, root) ==
    LET missing == SelectSeq(required_tags, LAMBDA t : Find(root, t) = <<>>)
        e1 == [i \in 1..Len(missing) |-> Msg("MissingTag", <<missing[i]>>)]
        package_id_elem == Find(root, "packageId")
        e2 == IF package_id_elem # <<>>
                 /\ ~validate_package_id(package_id_elem[1].text)
              THEN <<Msg("BadPackageId", package_id_elem[1].text)>>
              ELSE <<>>
        supported_versions == Find(root, "supportedVersions")
        w == IF supported_versions # <<>>
                /\ Len(FindAll(supported_versions[1], "li")) = 0
             THEN <<Msg("EmptySupportedVersions", <<>>)>>
             ELSE <<>>
    IN  [errors |-> self.errors \o e1 \o e2, warnings |-> self.warnings \o w]

\* The defName check of one definition that takes a missing defName only.
DefNameErrorsNoEmpty(child) ==
    IF Find(child, "defName") = <<>>
    THEN <<Msg("NoDefName", <<child.tag>>)>>
    ELSE <<>>

\* The defName check of one definition (one pass of the loop).
DefNameErrors(child) ==
    LET def_name_elem == Find(child, "defName")
    IN  IF def_name_elem = <<>>
        THEN <<Msg("NoDefName", <<child.tag>>)>>
        ELSE IF def_name_elem[1].text = <<>>
        THEN <<Msg("EmptyDefName", <<child.tag>>)>>
        ELSE <<>>

\* The label check of one definition that knows of ThingDef only.
LabelWarningsThingDef(child) ==
    IF child.tag = "ThingDef" /\ Find(child, "label") = <<>>
    THEN <<Msg("NoLabel", <<child.tag>>)>>
    ELSE <<>>

\* The label check of one definition (one pass of the loop).
LabelWarnings(child) ==
    IF child.tag \in {"ThingDef", "RecipeDef", "ResearchProjectDef"}
       /\ Find(child, "label") = <<>>
    THEN <<Msg("NoLabel", <<child.tag>>)>>
    ELSE <<>>

validate_defs_structure(self, root) ==
    LET def_count == Len(root.children)
        e == Flatten([i \in 1..def_count |-> DefNameErrors(root.children[i])])
        w == Flatten([i \in 1..def_count |-> LabelWarnings(root.children[i])])
        w0 == IF def_count = 0 THEN <<Msg("EmptyDefs", <<>>)>> ELSE <<>>
    IN  [errors |-> self.errors \o e, warnings |-> self.warnings \o w \o w0]

\* check_unknown_tags looking at the element and its children only.
check_unknown_tags_shallow(element, path) ==
    LET Unknown(t) == /\ t \notin rimworld_tags
                      /\ t \notin {"li", "count"}
                      /\ ~EndsWithDef(t)
        current_path == Append(path, element.tag)
        own == IF Unknown(element.tag)
               THEN <<Msg("UnknownTag", current_path)>> ELSE <<>>
    IN  own \o Flatten([i \in 1..Len(element.children) |->
                IF Unknown(element.children[i].tag)
                THEN <<Msg("UnknownTag",
                           Append(current_path, element.children[i].tag))>>
                ELSE <<>>])

\* The warnings check_unknown_tags appends to self.warnings for element
\* and, recursively, for its descendants; path is the tags of its ancestors.
RECURSIVE check_unknown_tags(_, _)
check_unknown_tags(element, path) ==
    LET current_path == Append(path, element.tag)
        own == IF /\ element.tag \notin rimworld_tags
                  /\ element.tag \notin {"li", "count"}
                  /\ ~EndsWithDef(element.tag)
               THEN <<Msg("UnknownTag", current_path)>>
               ELSE <<>>
    IN  own \o Flatten([i \in 1..Len(element.children) |->
                           check_unknown_tags(element.children[i], current_path)])

\* validate_rimworld_structure taking every root but ModMetaData for Defs.
validate_rimworld_structure_defs(self, c) ==
    LET p == ParseXML(c)
    IN  IF ~p.ok THEN self
        ELSE LET root == p.root[1]
                 s1 == IF root.tag = "ModMetaData"
                       THEN validate_mod_metadata(self, root)
                       ELSE validate_defs_structure(
                                [self EXCEPT !.warnings =
                                    Append(@, Msg("UnusualRoot", <<root.tag>>))],
                                root)
             IN  [s1 EXCEPT !.warnings = @ \o check_unknown_tags(root, <<>>)]

\* validate_rimworld_structure with the unknown tags put among the errors.
validate_rimworld_structure_strict(self, c) ==
    LET p == ParseXML(c)
    IN  IF ~p.ok THEN self
        ELSE LET root == p.root[1]
                 s1 == IF root.tag = "ModMetaData"
                       THEN validate_mod_metadata(self, root)
                       ELSE IF root.tag = "Defs"
                       THEN validate_defs_structure(self, root)
                       ELSE [self EXCEPT !.warnings =
                                Append(@, Msg("UnusualRoot", <<root.tag>>))]
             IN  [s1 EXCEPT !.errors = @ \o check_unknown_tags(root, <<>>)]

validate_rimworld_structure(self, c) ==
    LET p == ParseXML(c)
    IN  IF ~p.ok THEN self
        ELSE LET root == p.root[1]
                 s1 == IF root.tag = "ModMetaData"
                       THEN validate_mod_metadata(self, root)
                       ELSE IF root.tag = "Defs"
                       THEN validate_defs_structure(self, root)
                       ELSE [self EXCEPT !.warnings =
                                Append(@, Msg("UnusualRoot", <<root.tag>>))]
             IN  [s1 EXCEPT !.warnings = @ \o check_unknown_tags(root, <<>>)]

\* validate_content: [self, ret], the instance after the call and the
\* value returned.
validate_content(self, c) ==
    LET r == validate_xml_syntax(self, c)
    IN  IF ~r.ret THEN [self |-> r.self, ret |-> FALSE]
        ELSE LET s2 == validate_rimworld_structure(r.self, c)
             IN  [self |-> s2, ret |-> (Len(s2.errors) = 0)]

\* get_validation_report with warning_count taken from the errors.
get_validation_report_miscount(self) ==
    [valid |-> (Len(self.errors) = 0),
     errors |-> self.errors,
     warnings |-> self.warnings,
     error_count |-> Len(self.errors),
     warning_count |-> Len(self.errors)]

get_validation_report(self) ==
    [valid |-> (Len(self.errors) = 0),
     errors |-> self.errors,
     warnings |-> self.warnings,
     error_count |-> Len(self.errors),
     warning_count |-> Len(self.warnings)]

\* A file as validate_file finds it: read_text returns its text or raises.
File(ok, text) == [ok |-> ok, text |-> text]

\* validate_file: [self, ret]; a failed read replaces self.errors and
\* leaves self.warnings as it is.
validate_file(self, file) ==
    IF file.ok
    THEN validate_content(self, file.text)
    ELSE [self |-> [self EXCEPT !.errors = <<Msg("ReadError", <<>>)>>],
          ret |-> FALSE]

\* One line of the formatted report: what it is, its number in its list
\* (0 when it has none) and the entry it shows (<<>> when it has none).
Line(what, n, entry) == [what |-> what, n |-> n, entry |-> entry]

\* The numbered lines of one list, numbered from 0: enumerate(list).
NumberedFromZero(list) ==
    [i \in 1..Len(list) |-> Line("item", i - 1, <<list[i]>>)]

\* The numbered lines of one list: enumerate(list, 1).
Numbered(list) == [i \in 1..Len(list) |-> Line("item", i, <<list[i]>>)]

\* format_report: the lines joined into the text, in order.
format_report(r) ==
    (IF r.valid THEN <<Line("valid", 0, <<>>)>>
                ELSE <<Line("has errors", 0, <<>>)>>)
    \o (IF r.errors # <<>>
        THEN <<Line("errors:", 0, <<>>)>> \o Numbered(r.errors)
        ELSE <<>>)
    \o (IF r.warnings # <<>>
        THEN <<Line("warnings:", 0, <<>>)>> \o Numbered(r.warnings)
        ELSE <<>>)
    \o (IF r.errors = <<>> /\ r.warnings = <<>>
        THEN <<Line("no issues", 0, <<>>)>>
        ELSE <<>>)

----------------------------------------------------------------------------
\* EnhancedXMLValidator.  It keeps no state between calls: every method
\* returns a new dictionary [valid, errors, warnings, info].  The texts of
\* the model write every tag whole, so the hints _analyze_parse_error gives
\* for a line with '<' and no '>', or with '&', never apply, and their
\* characters are ASCII, so _check_encoding finds nothing.

\* content.strip() is empty.
IsBlank(c) == \A i \in 1..Len(c) : c[i].k = "text" /\ IsWhitespace(c[i].s)

\* The first token of content.strip(), as a sequence of at most one token.
FirstToken(c) ==
    LET idx == {i \in 1..Len(c) : ~(c[i].k = "text" /\ IsWhitespace(c[i].s))}
    IN  IF idx = {} THEN <<>>
        ELSE <<c[CHOOSE i \in idx : \A j \in idx : i <= j]>>

\* content.strip().startswith('<?xml')
StartsWithDecl(c) == FirstToken(c) # <<>> /\ FirstToken(c)[1].k = "decl"

\* str.lower() of the encoding names of the model.
LowerName(enc) == IF enc = <<"UTF-8">> THEN <<"utf-8">> ELSE enc

\* _check_xml_declaration: the warnings it appends.
check_xml_declaration(c) ==
    IF ~StartsWithDecl(c) THEN <<Msg("NoDeclaration", <<>>)>>
    ELSE IF FirstToken(c)[1].s = <<>> THEN <<Msg("NoEncoding", <<>>)>>
    ELSE IF LowerName(FirstToken(c)[1].s) # <<"utf-8">>
    THEN <<Msg("NotUtf8", <<>>)>>
    ELSE <<>>

\* _check_well_formed: the warning for unequal numbers of start and end
\* tags; an element written <t /> counts as a start tag unless a start tag
\* of its name is written that way.
check_well_formed(c) ==
    LET self_closing == {c[i].tag : i \in {j \in 1..Len(c) : c[j].k = "empty"}}
        open_tags == {i \in 1..Len(c) :
                         c[i].k = "open" /\ c[i].tag \notin self_closing}
        close_tags == {i \in 1..Len(c) : c[i].k = "close"}
    IN  IF Cardinality(open_tags) # Cardinality(close_tags)
        THEN <<Msg("TagCountMismatch", <<>>)>>
        ELSE <<>>

\* _analyze_parse_error: the info it appends (the line the parser names).
analyze_parse_error(c) == <<Msg("ProblemLine", <<>>)>>

\* EnhancedXMLValidator.validate_xml_syntax that goes on to the parser
\* after it found the text blank.
enhanced_validate_xml_syntax_on(c) ==
    LET p == ParseXML(c)
        blank == IF IsBlank(c) THEN <<Msg("EmptyFile", <<>>)>> ELSE <<>>
    IN  IF p.ok
        THEN [valid |-> blank = <<>>, errors |-> blank,
              warnings |-> check_xml_declaration(c) \o check_well_formed(c),
              info |-> <<Msg("SyntaxOk", <<p.root[1].tag>>)>>]
        ELSE [valid |-> FALSE,
              errors |-> blank \o <<Msg("SyntaxError", p.msg)>>,
              warnings |-> <<>>, info |-> analyze_parse_error(c)]

\* EnhancedXMLValidator.validate_xml_syntax
enhanced_validate_xml_syntax(c) ==
    LET p == ParseXML(c)
    IN  IF IsBlank(c)
        THEN [valid |-> FALSE, errors |-> <<Msg("EmptyFile", <<>>)>>,
              warnings |-> <<>>, info |-> <<>>]
        ELSE IF p.ok
        THEN [valid |-> TRUE, errors |-> <<>>,
              warnings |-> check_xml_declaration(c) \o check_well_formed(c),
              info |-> <<Msg("SyntaxOk", <<p.root[1].tag>>)>>]
        ELSE [valid |-> FALSE, errors |-> <<Msg("SyntaxError", p.msg)>>,
              warnings |-> <<>>, info |-> analyze_parse_error(c)]

\* EnhancedXMLValidator.load_rimworld_tags: the expected children, by tag.
enhanced_rimworld_tags ==
    [t \in {"Defs", "ThingDef", "RecipeDef", "ResearchProjectDef", "statBases",
            "comps", "ingredients", "products", "prerequisites"} |->
        CASE t = "Defs" -> {"ThingDef", "RecipeDef", "ResearchProjectDef",
                            "JobDef", "WorkGiverDef"}
          [] t = "ThingDef" -> {"defName", "label", "description", "thingClass",
                                "category", "statBases", "comps"}
          [] t = "RecipeDef" -> {"defName", "label", "description", "jobString",
                                 "workAmount", "ingredients", "products"}
          [] t = "ResearchProjectDef" -> {"defName", "label", "description",
                                          "baseCost", "techLevel", "prerequisites"}
          [] t = "statBases" -> {"MaxHitPoints", "Mass", "Beauty", "WorkToMake",
                                 "MarketValue"}
          [] t = "comps" -> {"CompProperties_Forbiddable",
                             "CompProperties_Rottable", "CompProperties_Usable"}
          [] OTHER -> {"li"}]

\* Extend that leaves valid as it was.
ExtendKeepValid(r, e, w, n) ==
    [valid |-> r.valid,
     errors |-> r.errors \o e,
     warnings |-> r.warnings \o w,
     info |-> r.info \o n]

\* The dictionary with the three lists extended.
Extend(r, e, w, n) ==
    [valid |-> r.valid /\ e = <<>>,
     errors |-> r.errors \o e,
     warnings |-> r.warnings \o w,
     info |-> r.info \o n]

\* _validate_single_def without the test for a blank defName.
SingleDefErrorsNoBlank(def_elem) ==
    IF Find(def_elem, "defName") = <<>>
    THEN <<Msg("NoDefName", <<def_elem.tag>>)>>
    ELSE <<>>

\* _validate_single_def: the errors it appends.
SingleDefErrors(def_elem) ==
    LET def_name == Find(def_elem, "defName")
    IN  IF def_name = <<>>
        THEN <<Msg("NoDefName", <<def_elem.tag>>)>>
        ELSE IF def_name[1].text = <<>> \/ IsWhitespace(def_name[1].text)
        THEN <<Msg("EmptyDefName", <<def_elem.tag>>)>>
        ELSE <<>>

\* _validate_single_def: the warnings it appends; expected_type is a
\* sequence of at most one tag.
SingleDefWarnings(def_elem, expected_type) ==
    (IF expected_type # <<>> /\ def_elem.tag # expected_type[1]
     THEN <<Msg("WrongDefType", <<expected_type[1], def_elem.tag>>)>>
     ELSE <<>>)
    \o (IF Find(def_elem, "label") = <<>>
        THEN <<Msg("NoLabel", <<def_elem.tag>>)>> ELSE <<>>)
    \o (IF Find(def_elem, "description") = <<>>
        THEN <<Msg("NoDescription", <<def_elem.tag>>)>> ELSE <<>>)

\* _validate_single_def: the info it appends.
SingleDefInfo(def_elem) ==
    IF def_elem.tag \notin DOMAIN enhanced_rimworld_tags THEN <<>>
    ELSE LET cs == SelectSeq(def_elem.children,
                     LAMBDA ch : /\ ch.tag \notin enhanced_rimworld_tags[def_elem.tag]
                                 /\ ch.tag \notin {"defName", "label", "description"})
         IN  [i \in 1..Len(cs) |-> Msg("UnusualChild", <<def_elem.tag, cs[i].tag>>)]

validate_single_def(def_elem, r, expected_type) ==
    Extend(r, SingleDefErrors(def_elem),
           SingleDefWarnings(def_elem, expected_type), SingleDefInfo(def_elem))

\* The elements of the tree under e, e first, as Element.iter() gives them.
RECURSIVE Iter(_)
Iter(e) == <<e>> \o Flatten([i \in 1..Len(e.children) |-> Iter(e.children[i])])

\* _validate_defs_structure
enhanced_validate_defs_structure(root, r) ==
    LET n == Len(root.children)
        IsDef(i) == EndsWithDef(root.children[i].tag)
        def_count == Cardinality({i \in 1..n : IsDef(i)})
        e == Flatten([i \in 1..n |->
                 IF IsDef(i) THEN SingleDefErrors(root.children[i]) ELSE <<>>])
        w == Flatten([i \in 1..n |->
                 IF IsDef(i) THEN SingleDefWarnings(root.children[i], <<>>)
                 ELSE <<Msg("UnusualInDefs", <<root.children[i].tag>>)>>])
        f == Flatten([i \in 1..n |->
                 IF IsDef(i) THEN SingleDefInfo(root.children[i]) ELSE <<>>])
    IN  IF def_count = 0
        THEN Extend(r, e, w \o <<Msg("NoDefs", <<>>)>>, f)
        ELSE Extend(r, e, w, f \o <<Msg("DefCount", <<def_count>>)>>)

\* tag.lower() in operations, for the tags of the model's documents.
IsPatchOperation(t) ==
    t \in {"add", "replace", "remove", "insert", "move", "copy", "test",
           "Add", "Replace", "Remove"}

\* _validate_patch_structure
validate_patch_structure(root, r) ==
    LET n == Len(root.children)
        operation_count ==
            Cardinality({i \in 1..n : IsPatchOperation(root.children[i].tag)})
        w == Flatten([i \in 1..n |->
                 IF IsPatchOperation(root.children[i].tag) THEN <<>>
                 ELSE <<Msg("UnusualInPatch", <<root.children[i].tag>>)>>])
    IN  IF operation_count = 0
        THEN Extend(r, <<>>, w \o <<Msg("NoOperations", <<>>)>>, <<>>)
        ELSE Extend(r, <<>>, w, <<Msg("OperationCount", <<operation_count>>)>>)

\* The defName texts _check_common_issues looks at: of every element whose
\* tag ends in 'Def', the text of its first defName child when it has one
\* and the text is not empty.
DefNamesOf(root) ==
    LET defs == SelectSeq(Iter(root),
                    LAMBDA d : /\ EndsWithDef(d.tag)
                               /\ Find(d, "defName") # <<>>
                               /\ Find(d, "defName")[1].text # <<>>)
    IN  [i \in 1..Len(defs) |-> Find(defs[i], "defName")[1].text]

\* The duplicate check that compares each defName with the one before it.
DuplicateErrorsAdjacent(names) ==
    Flatten([i \in 1..Len(names) |->
        IF i > 1 /\ names[i - 1] = names[i]
        THEN <<Msg("DuplicateDefName", names[i])>> ELSE <<>>])

\* The errors of the duplicate check: one for every defName seen before.
DuplicateErrors(names) ==
    Flatten([i \in 1..Len(names) |->
        IF \E j \in 1..(i - 1) : names[j] = names[i]
        THEN <<Msg("DuplicateDefName", names[i])>> ELSE <<>>])

\* _check_common_issues
check_common_issues(root, r) ==
    LET all == Iter(root)
        empty == SelectSeq(all, LAMBDA e : /\ e.text = <<>>
                                          /\ e.children = <<>>
                                          /\ e.tag # "li")
        w == [i \in 1..Len(empty) |-> Msg("EmptyElement", <<empty[i].tag>>)]
    IN  Extend(r, DuplicateErrors(DefNamesOf(root)), w, <<>>)

\* EnhancedXMLValidator.validate_rimworld_structure
enhanced_validate_rimworld_structure(c) ==
    LET r0 == enhanced_validate_xml_syntax(c)
    IN  IF ~r0.valid THEN r0
        ELSE LET root == ParseXML(c).root[1]
                 r1 == IF root.tag \notin {"Defs", "GameData", "LanguageData",
                                           "Patch"}
                       THEN Extend(r0, <<>>,
                                   <<Msg("UnusualRoot", <<root.tag>>)>>, <<>>)
                       ELSE r0
                 r2 == IF root.tag = "Defs"
                       THEN enhanced_validate_defs_structure(root, r1)
                       ELSE IF root.tag = "Patch"
                       THEN validate_patch_structure(root, r1)
                       ELSE r1
             IN  check_common_issues(root, r2)

\* EnhancedXMLValidator.validate_def_structure; def_type is a sequence of
\* at most one tag.
validate_def_structure(c, def_type) ==
    LET r0 == enhanced_validate_xml_syntax(c)
    IN  IF ~r0.valid THEN r0
        ELSE LET root == ParseXML(c).root[1]
                 defs == IF EndsWithDef(root.tag) THEN <<root>>
                         ELSE SelectSeq(root.children,
                                        LAMBDA e : EndsWithDef(e.tag))
             IN  Extend(r0,
                    Flatten([i \in 1..Len(defs) |-> SingleDefErrors(defs[i])]),
                    Flatten([i \in 1..Len(defs) |->
                                SingleDefWarnings(defs[i], def_type)]),
                    Flatten([i \in 1..Len(defs) |-> SingleDefInfo(defs[i])]))

\* "\n" + level * indent
RECURSIVE NewLine(_, _)
NewLine(level, indent) ==
    IF level = 0 THEN <<"\n">> ELSE NewLine(level - 1, indent) \o indent

\* _indent_xml and ET.tostring(root, encoding='unicode') for the element e
\* at the given level, without e's own tail: an element with children gets
\* its blank text replaced by a new line and the indent of its children,
\* every child is followed by a new line and the indent of the next child,
\* the last by that of e's end tag; an element without content is written
\* <tag />.  The elements of the model have no character data after their
\* end tags.
RECURSIVE Serialize(_, _, _)
Serialize(e, level, indent) ==
    LET n == Len(e.children)
    IN  IF n = 0
        THEN IF e.text = <<>> THEN <<EmptyTag(e.tag)>>
             ELSE <<Open(e.tag), Text(e.text), Close(e.tag)>>
        ELSE <<Open(e.tag),
               Text(IF IsWhitespace(e.text) THEN NewLine(level + 1, indent)
                    ELSE e.text)>>
             \o Flatten([i \in 1..n |->
                    Serialize(e.children[i], level + 1, indent)
                    \o <<Text(NewLine(IF i = n THEN level ELSE level + 1,
                                      indent))>>])
             \o <<Close(e.tag)>>

\* format_xml that writes the declaration whatever the text begins with.
format_xml_always(c, indent) ==
    LET p == ParseXML(c)
    IN  IF ~p.ok THEN c
        ELSE <<Decl(<<"utf-8">>), Text(<<"\n">>)>>
             \o Serialize(p.root[1], 0, indent)
             \o (IF p.root[1].children # <<>> THEN <<Text(<<"\n">>)>> ELSE <<>>)

\* EnhancedXMLValidator.format_xml: the text returned.  The root with
\* children has the tail "\n".
format_xml(c, indent) ==
    LET p == ParseXML(c)
        rough_string ==
            Serialize(p.root[1], 0, indent)
            \o (IF p.root[1].children # <<>> THEN <<Text(<<"\n">>)>> ELSE <<>>)
    IN  IF ~p.ok THEN c
        ELSE IF ~StartsWithDecl(c)
        THEN <<Decl(<<"utf-8">>), Text(<<"\n">>)>> \o rough_string
        ELSE rough_string

----------------------------------------------------------------------------
\* The documents validated.

Leaf(t, s) == Elem(t, s, <<>>)

\* The text of an element tree, as tokens.
RECURSIVE Tokens(_)
Tokens(e) ==
    <<Open(e.tag)>>
    \o (IF e.text = <<>> THEN <<>> ELSE <<Text(e.text)>>)
    \o Flatten([i \in 1..Len(e.children) |-> Tokens(e.children[i])])
    \o <<Close(e.tag)>>

\* The characters of a packageId text.
IdChars == {"a", "B", "7", "_", ".", " ", "\n"}

IdTexts == SeqsUpTo(IdChars, MaxIdLen)

Optional(S) == {<<>>} \cup {<<e>> : e \in S}

VersionsElems ==
    {Leaf("supportedVersions", <<>>),
     Elem("supportedVersions", <<>>, <<Leaf("li", <<"1">>)>>)}

\* Metadata documents: each required child present or not, with the given
\* packageId texts, and an optional child of an unknown tag.
MetaTrees(nameOpts, authorOpts, idTexts, extraOpts) ==
    {Elem("ModMetaData", <<>>, n \o a \o p \o v \o x) :
        n \in nameOpts, a \in authorOpts,
        p \in Optional({Leaf("packageId", s) : s \in idTexts}),
        v \in Optional(VersionsElems),
        x \in extraOpts}

\* Metadata documents with all four required children and any packageId text.
IdTrees ==
    {Elem("ModMetaData", <<>>,
          <<Leaf("name", <<"x">>), Leaf("author", <<"y">>),
            Leaf("packageId", s),
            Elem("supportedVersions", <<>>, <<Leaf("li", <<"1">>)>>)>>) :
        s \in IdTexts}

\* Definitions: a tag, a defName child or none, a label child or none.
DefPool(tags, names) ==
    {Elem(t, <<>>, dn \o lb) :
        t \in tags,
        dn \in Optional({Leaf("defName", s) : s \in names}),
        lb \in Optional({Leaf("label", <<"x">>)})}

DefsTrees(pool, n) == {Elem("Defs", <<>>, cs) : cs \in SeqsUpTo(pool, n)}

\* Documents whose root is neither ModMetaData nor Defs.
OtherTrees ==
    {Leaf("Patch", <<>>),
     Elem("LanguageData", <<>>, <<Leaf("greeting", <<"x">>)>>),
     Elem("ThingDef", <<>>, <<Leaf("defName", <<"A">>)>>)}

\* Elements known, unknown and exempt, alone and one inside the other.
WalkPool ==
    {Leaf("zzz", <<>>), Leaf("li", <<>>), Leaf("count", <<>>),
     Leaf("HediffDef", <<>>),
     Elem("statBases", <<>>, <<Leaf("zzz", <<>>)>>),
     Elem("zzz", <<>>, <<Leaf("yyy", <<>>)>>)}

\* A definition with a defName and elements of WalkPool under it.
WalkTrees ==
    {Elem("Defs", <<>>,
          <<Elem("ThingDef", <<>>, <<Leaf("defName", <<"A">>)>> \o cs)>>) :
        cs \in SeqsUpTo(WalkPool, MaxWalk)}

\* Documents of another root that hold what a metadata or a definitions
\* document would be blamed for.
StrayTrees ==
    {Elem(t, <<>>, cs) :
        t \in {"Patch", "ThingDef"},
        cs \in {<<Leaf("packageId", <<"a", "b">>), Leaf("supportedVersions", <<>>)>>,
                <<Leaf("ThingDef", <<>>)>>}}

\* Defs documents of named definitions of visible and other types, with
\* or without a label.
TypedTrees ==
    DefsTrees({Elem(d[1], <<>>, <<Leaf("defName", <<d[2]>>)>> \o lb) :
                  d \in {<<"RecipeDef", "A">>, <<"ResearchProjectDef", "B">>,
                         <<"TraitDef", "C">>},
                  lb \in Optional({Leaf("label", <<"x">>)})},
              MaxTypedDefs)

\* Complete metadata documents with a supportedVersions of text only, of a
\* child that is not li, of an li one level further down, and of two li.
VersionsTrees ==
    {Elem("ModMetaData", <<>>,
          <<Leaf("name", <<"x">>), Leaf("author", <<"y">>),
            Leaf("packageId", <<"a", ".", "b">>), v>>) :
        v \in {Leaf("supportedVersions", <<"1">>),
               Elem("supportedVersions", <<>>, <<Leaf("count", <<"1">>)>>),
               Elem("supportedVersions", <<>>,
                    <<Elem("filter", <<>>, <<Leaf("li", <<"1">>)>>)>>),
               Elem("supportedVersions", <<>>,
                    <<Leaf("li", <<"1">>), Leaf("li", <<"2">>)>>)}}

\* Texts derived from a document by dropping one token, repeating the
\* document, or putting character data before it.
Mutations(d) ==
    {SubSeq(d, 1, i - 1) \o SubSeq(d, i + 1, Len(d)) : i \in 1..Len(d)}
    \cup {d \o d, <<Text(<<"x">>)>> \o d, <<Text(<<" ">>)>> \o d}

MutationBase ==
    {Tokens(Elem("Defs", <<>>, <<Leaf("ThingDef", <<>>)>>)),
     Tokens(Elem("Defs", <<>>,
                 <<Elem("ThingDef", <<>>, <<Leaf("defName", <<"A">>)>>)>>))}

MutatedDocs == {<<>>} \cup UNION {Mutations(d) : d \in MutationBase}

\* The definitions of a session: a ThingDef with or without defName and
\* label, and a child of an unknown tag with an empty defName.
SessionDefPool ==
    DefPool({"ThingDef"}, {<<"A">>})
    \cup {Elem("comps", <<>>, <<Leaf("defName", <<>>)>>)}

\* The inputs of a session of several calls on one instance.
SessionDocs ==
    {Tokens(e) :
        e \in MetaTrees({<<Leaf("name", <<"x">>)>>},
                        {<<Leaf("author", <<"y">>)>>},
                        {<<"a", "b">>, <<"a", ".", "b">>}, {<<>>})
              \cup DefsTrees(SessionDefPool, MaxSessionDefs)
              \cup OtherTrees}
    \cup MutatedDocs

\* The files of a session: unreadable, empty, or holding a document.
SessionFiles ==
    {File(FALSE, <<>>), File(TRUE, <<>>)}
    \cup {File(TRUE, Tokens(e)) : e \in OtherTrees}

\* The inputs of a single call.
AllDocs ==
    {Tokens(e) :
        e \in MetaTrees(Optional({Leaf("name", <<"x">>)}),
                        Optional({Leaf("author", <<"y">>)}),
                        {<<>>, <<"a", "b">>, <<"a", ".", "b">>,
                         <<"a", ".", "b", "\n">>},
                        Optional({Leaf("url", <<"x">>)}))
              \cup IdTrees
              \cup DefsTrees(DefPool({"ThingDef", "comps"},
                                     {<<>>, <<" ">>, <<"A">>, <<"B">>}),
                             MaxDefs)
              \cup WalkTrees
              \cup VersionsTrees
              \cup TypedTrees
              \cup StrayTrees
              \cup OtherTrees}
    \cup MutatedDocs

----------------------------------------------------------------------------
\* The state machine.

Self == [errors |-> errors, warnings |-> warnings]

\* No caller is inside a call.
NoThreads == <<>>

\* What a call leaves of the call before it.
History ==
    IF phase = "Validated"
    THEN <<[content |-> content, ret |-> ret,
            errors |-> errors, warnings |-> warnings]>>
    ELSE <<>>

\* No method of EnhancedXMLValidator called.
EnhancedIdle ==
    /\ result = <<>>
    /\ pretty = <<>>

\* ProjectManager.__init__: no project loaded, no export under way.
ExportIdle ==
    /\ project = [loaded |-> FALSE, about_dir |-> FALSE, defs_dir |-> FALSE,
                  about_xml |-> "absent", defs_xml |-> <<>>]
    /\ export = [pc |-> "idle", export_type |-> "folder", validation |-> <<>>,
                 loaded |-> FALSE, copied |-> FALSE, wrote |-> FALSE,
                 ret |-> <<>>]
    /\ disk = "nothing"

\* CacheManager.__init__ with the default max_size.
CacheIdle ==
    /\ max_size = 100
    /\ cache = <<>>
    /\ access_times = <<>>
    /\ clock = 0
    /\ last = <<>>

\* ThreadPool.__init__ with the default max_workers.
PoolIdle ==
    /\ max_workers = 4
    /\ running = FALSE
    /\ task_queue = <<>>
    /\ workers = <<>>
    /\ executed = <<>>

\* Nothing else has been called.
RestIdle == EnhancedIdle /\ ExportIdle /\ CacheIdle /\ PoolIdle

\* SimpleXMLValidator.__init__; nothing validated yet.
Init ==
    /\ errors = <<>>
    /\ warnings = <<>>
    /\ content = <<>>
    /\ ret = FALSE
    /\ report = <<>>
    /\ phase = "NotValidated"
    /\ previous = <<>>
    /\ formatted = <<>>
    /\ threads = NoThreads
    /\ RestIdle

\* A call validate_content(c).
ValidateContent(c) ==
    LET r == validate_content(Self, c)
    IN  /\ errors' = r.self.errors
        /\ warnings' = r.self.warnings
        /\ ret' = r.ret
        /\ content' = c
        /\ report' = <<>>
        /\ phase' = "Validated"
        /\ previous' = History
        /\ formatted' = <<>>
        /\ UNCHANGED <<threads, Rest>>

\* A call validate_file(path) where the path holds the given file.
ValidateFile(file) ==
    LET r == validate_file(Self, file)
    IN  /\ errors' = r.self.errors
        /\ warnings' = r.self.warnings
        /\ ret' = r.ret
        /\ content' = file.text
        /\ report' = <<>>
        /\ phase' = IF file.ok THEN "Validated" ELSE "ReadFailed"
        /\ previous' = History
        /\ formatted' = <<>>
        /\ UNCHANGED <<threads, Rest>>

\* A call get_validation_report().
GetValidationReport ==
    /\ report' = <<get_validation_report(Self)>>
    /\ formatted' = <<>>
    /\ UNCHANGED <<errors, warnings, content, ret, phase, previous, threads, Rest>>

\* A call format_report(report) with the report read last.
FormatReport ==
    /\ report # <<>>
    /\ formatted' = <<format_report(report[1])>>
    /\ UNCHANGED <<errors, warnings, content, ret, report, phase, previous,
                   threads, Rest>>

Validate == \E c \in SessionDocs : ValidateContent(c)

ValidateAFile == \E f \in SessionFiles : ValidateFile(f)

Next == Validate \/ ValidateAFile \/ GetValidationReport \/ FormatReport

\* Any number of calls on one instance.
Spec == Init /\ [][Next]_vars

\* A new instance and the text it is about to validate.
InitOneCall ==
    /\ errors = <<>>
    /\ warnings = <<>>
    /\ content \in AllDocs
    /\ ret = FALSE
    /\ report = <<>>
    /\ phase = "NotValidated"
    /\ previous = <<>>
    /\ formatted = <<>>
    /\ threads = NoThreads
    /\ RestIdle

ValidateGiven == phase = "NotValidated" /\ ValidateContent(content)

NextOneCall == ValidateGiven \/ GetValidationReport

\* One call on a new instance, for every text.
SpecOneCall == InitOneCall /\ [][NextOneCall]_vars

----------------------------------------------------------------------------
\* Two callers on one instance at the same time: a UI handler and a
\* background worker, each inside validate_content and then reading the
\* report.  A step is one statement of validate_content or of a method it
\* calls; pc names the statement the caller is about to execute.

Threads == {"ui", "worker"}

\* The inputs of the concurrent calls.
ConcurrentDocs ==
    {Tokens(e) : e \in OtherTrees} \cup MutationBase \cup {<<>>}

InitConcurrent ==
    /\ errors = <<>>
    /\ warnings = <<>>
    /\ content = <<>>
    /\ ret = FALSE
    /\ report = <<>>
    /\ phase = "NotValidated"
    /\ previous = <<>>
    /\ formatted = <<>>
    /\ RestIdle
    /\ threads \in [Threads -> {[pc |-> "reset errors", content |-> c,
                                 ret |-> FALSE, report |-> <<>>] :
                                    c \in ConcurrentDocs}]

Shared == <<content, ret, report, phase, previous, formatted, Rest>>

\* self.errors = [] (validate_xml_syntax).
ResetErrors(t) ==
    /\ threads[t].pc = "reset errors"
    /\ errors' = <<>>
    /\ threads' = [threads EXCEPT ![t].pc = "reset warnings"]
    /\ UNCHANGED <<warnings, Shared>>

\* self.warnings = [] (validate_xml_syntax).
ResetWarnings(t) ==
    /\ threads[t].pc = "reset warnings"
    /\ warnings' = <<>>
    /\ threads' = [threads EXCEPT ![t].pc = "parse"]
    /\ UNCHANGED <<errors, Shared>>

\* The try of validate_xml_syntax and the test of its result in
\* validate_content: on a ParseError the error is appended and the call
\* returns False.
ParseStep(t) ==
    /\ threads[t].pc = "parse"
    /\ LET p == ParseXML(threads[t].content)
       IN  IF p.ok
           THEN /\ threads' = [threads EXCEPT ![t].pc = "structure"]
                /\ UNCHANGED errors
           ELSE /\ errors' = Append(errors, Msg("SyntaxError", p.msg))
                /\ threads' = [threads EXCEPT ![t].pc = "returned",
                                              ![t].ret = FALSE]
    /\ UNCHANGED <<warnings, Shared>>

\* self.validate_rimworld_structure(content).
StructureStep(t) ==
    /\ threads[t].pc = "structure"
    /\ LET s2 == validate_rimworld_structure(Self, threads[t].content)
       IN  /\ errors' = s2.errors
           /\ warnings' = s2.warnings
    /\ threads' = [threads EXCEPT ![t].pc = "result"]
    /\ UNCHANGED Shared

\* return len(self.errors) == 0.
ResultStep(t) ==
    /\ threads[t].pc = "result"
    /\ threads' = [threads EXCEPT ![t].pc = "returned",
                                  ![t].ret = (Len(errors) = 0)]
    /\ UNCHANGED <<errors, warnings, Shared>>

\* The caller's get_validation_report() after its call.
ReportStep(t) ==
    /\ threads[t].pc = "returned"
    /\ threads' = [threads EXCEPT ![t].pc = "done",
                                  ![t].report = <<get_validation_report(Self)>>]
    /\ UNCHANGED <<errors, warnings, Shared>>

NextConcurrent ==
    \E t \in Threads :
        \/ ResetErrors(t)
        \/ ResetWarnings(t)
        \/ ParseStep(t)
        \/ StructureStep(t)
        \/ ResultStep(t)
        \/ ReportStep(t)

\* Two calls on one instance, in every interleaving of their statements.
SpecConcurrent == InitConcurrent /\ [][NextConcurrent]_vars

----------------------------------------------------------------------------
\* One call on an EnhancedXMLValidator, or on a new SimpleXMLValidator,
\* for every text.

\* Texts that are empty or hold white space only.
BlankDocs == {<<>>, <<Text(<<" ">>)>>, <<Text(<<"\n", " ">>)>>}

\* Definitions named A, B, with a blank or empty defName or with none, of
\* two types; an element that is no definition; a definition inside a
\* definition of the same name.
EnhancedDefPool ==
    {Elem("ThingDef", <<>>, dn) :
        dn \in Optional({Leaf("defName", n) :
                            n \in {<<"A">>, <<"B">>, <<" ">>, <<>>}})}
    \cup {Elem("RecipeDef", <<>>, <<Leaf("defName", <<"A">>)>>),
          Elem("comps", <<>>, <<Leaf("defName", <<"A">>)>>),
          Elem("ThingDef", <<>>,
               <<Leaf("defName", <<"A">>), Leaf("label", <<"x">>),
                 Leaf("description", <<"x">>),
                 Elem("ThingDef", <<>>, <<Leaf("defName", <<"A">>)>>)>>)}

\* Patch documents.
PatchTrees ==
    {Elem("Patch", <<>>, cs) :
        cs \in {<<Leaf("Add", <<"x">>)>>,
                <<Leaf("replace", <<>>), Leaf("zzz", <<"x">>)>>}}

\* Texts with an XML declaration, at their start or elsewhere.
DeclDocs ==
    UNION {{<<Decl(enc)>> \o d, <<Text(<<" ">>), Decl(enc)>> \o d,
            d \o <<Decl(enc)>>, <<Decl(enc)>>} :
              enc \in {<<>>, <<"utf-8">>, <<"UTF-8">>, <<"latin-1">>},
              d \in {Tokens(e) : e \in OtherTrees} \cup MutationBase}

EnhancedDocs ==
    {Tokens(e) : e \in DefsTrees(EnhancedDefPool, MaxEnhancedDefs)
                        \cup PatchTrees \cup OtherTrees \cup StrayTrees}
    \cup BlankDocs \cup DeclDocs \cup MutatedDocs

\* indent = "  ", the default of format_xml.
DefaultIndent == <<" ", " ">>

InitEnhanced ==
    /\ errors = <<>>
    /\ warnings = <<>>
    /\ content \in EnhancedDocs
    /\ ret = FALSE
    /\ report = <<>>
    /\ phase = "NotValidated"
    /\ previous = <<>>
    /\ formatted = <<>>
    /\ threads = NoThreads
    /\ RestIdle

\* The state no call on the enhanced validator touches.
BesidesEnhanced == <<ExportVars, CacheVars, PoolVars>>

NothingCalled == phase = "NotValidated" /\ result = <<>> /\ pretty = <<>>

Simple == <<errors, warnings, content, ret, report, phase, previous,
            formatted, threads>>

\* A call of a method of EnhancedXMLValidator that returns a dictionary.
Returned(call, value) ==
    /\ result' = <<[call |-> call, value |-> value]>>
    /\ UNCHANGED <<Simple, pretty, BesidesEnhanced>>

EnhancedSyntax ==
    /\ NothingCalled
    /\ Returned("validate_xml_syntax", enhanced_validate_xml_syntax(content))

EnhancedStructure ==
    /\ NothingCalled
    /\ Returned("validate_rimworld_structure",
                enhanced_validate_rimworld_structure(content))

EnhancedDefStructure ==
    /\ NothingCalled
    /\ \E def_type \in {<<>>, <<"ThingDef">>} :
           Returned("validate_def_structure",
                    validate_def_structure(content, def_type))

FormatXml ==
    /\ NothingCalled
    /\ pretty' = <<format_xml(content, DefaultIndent)>>
    /\ UNCHANGED <<Simple, result, BesidesEnhanced>>

\* validate_content on a new SimpleXMLValidator.
ValidateSimple == NothingCalled /\ ValidateGiven

NextEnhanced ==
    \/ EnhancedSyntax
    \/ EnhancedStructure
    \/ EnhancedDefStructure
    \/ FormatXml
    \/ ValidateSimple

SpecEnhanced == InitEnhanced /\ [][NextEnhanced]_vars

----------------------------------------------------------------------------
\* ProjectManager.validate_project and export_mod
\* (src/src/core/project_manager.py).  self.xml_validator is whatever
\* 'from xml_validator import XmlValidator' finds, or the fallback class:
\* its validate_file returns a dictionary that says valid or not, or the
\* use of what it returns raises.

XmlOutcomes == {"valid", "invalid", "raises"}

\* The projects: none loaded, or a loaded one with or without its About
\* and Defs folders, About.xml and XML files under Defs.
Projects ==
    {q \in [loaded : BOOLEAN, about_dir : BOOLEAN, defs_dir : BOOLEAN,
            about_xml : {"absent"} \cup XmlOutcomes,
            defs_xml : SeqsUpTo(XmlOutcomes, MaxDefsFiles)] :
       /\ ~q.loaded => ~q.about_dir /\ ~q.defs_dir
       /\ ~q.about_dir => q.about_xml = "absent"
       /\ ~q.defs_dir => q.defs_xml = <<>>}

\* validate_project: [raised, results]; raised when the use of the XML
\* validator raised, results the dictionary returned otherwise.
validate_project(p) ==
    LET folders == (IF p.about_dir THEN <<>>
                    ELSE <<Msg("MissingFolder", <<"About">>)>>)
                   \o (IF p.defs_dir THEN <<>>
                       ELSE <<Msg("MissingFolder", <<"Defs">>)>>)
        about == IF p.about_xml = "absent" THEN <<Msg("NoAboutXml", <<>>)>>
                 ELSE IF p.about_xml = "invalid" THEN <<Msg("XmlError", <<>>)>>
                 ELSE <<>>
        defs == SelectSeq(p.defs_xml, LAMBDA f : f = "invalid")
        w == [i \in 1..Len(defs) |-> Msg("XmlError", <<>>)]
        raised == \/ p.about_xml = "raises"
                  \/ \E i \in 1..Len(p.defs_xml) : p.defs_xml[i] = "raises"
    IN  IF ~p.loaded
        THEN [raised |-> FALSE,
              results |-> [valid |-> FALSE,
                           errors |-> <<Msg("NotLoaded", <<>>)>>,
                           warnings |-> <<>>]]
        ELSE [raised |-> raised,
              results |-> [valid |-> (folders \o about = <<>>),
                           errors |-> folders \o about,
                           warnings |-> w]]

\* export_mod going on whatever validate_project returned.
proceeds_always(validation) == TRUE

\* export_mod's test of what validate_project returned.
proceeds(validation) == validation.valid

\* An invocation of export_mod at its start.
Invocation(export_type) ==
    [pc |-> "validate", loaded |-> project.loaded, export_type |-> export_type,
     validation |-> <<>>, copied |-> FALSE, wrote |-> FALSE, ret |-> <<>>]

Returns(value) == [export EXCEPT !.pc = "returned", !.ret = <<value>>]

InitExport ==
    /\ errors = <<>>
    /\ warnings = <<>>
    /\ content = <<>>
    /\ ret = FALSE
    /\ report = <<>>
    /\ phase = "NotValidated"
    /\ previous = <<>>
    /\ formatted = <<>>
    /\ threads = NoThreads
    /\ RestIdle

BesidesExport == <<Simple, EnhancedVars, CacheVars, PoolVars>>

\* A project is created, loaded or closed, or its files change, between
\* two exports.
LoadProject ==
    /\ export.pc \in {"idle", "returned"}
    /\ project' \in Projects \ {project}
    /\ UNCHANGED <<export, disk, BesidesExport>>

\* export_mod is called: it returns False at once when no project is
\* loaded.
ExportCall ==
    /\ export.pc \in {"idle", "returned"}
    /\ \E export_type \in {"folder", "zip"} :
          export' = IF ~project.loaded
                    THEN [Invocation(export_type) EXCEPT
                             !.pc = "returned", !.ret = <<FALSE>>]
                    ELSE Invocation(export_type)
    /\ UNCHANGED <<project, disk, BesidesExport>>

\* validation = self.validate_project() and the test of it; an exception
\* ends in export_mod's except clause.
ExportValidate ==
    /\ export.pc = "validate"
    /\ LET v == validate_project(project)
       IN  export' =
             IF v.raised THEN Returns(FALSE)
             ELSE IF ~proceeds(v.results)
             THEN [Returns(FALSE) EXCEPT !.validation = <<v.results>>]
             ELSE [export EXCEPT !.validation = <<v.results>>, !.pc = "copy"]
    /\ UNCHANGED <<project, disk, BesidesExport>>

\* _copy_project_files into the temporary folder (and
\* _prepare_steam_workshop there); it succeeds or raises.
ExportCopy ==
    /\ export.pc = "copy"
    /\ \/ export' = [export EXCEPT !.copied = TRUE, !.pc = "write"]
       \/ export' = Returns(FALSE)
    /\ UNCHANGED <<project, disk, BesidesExport>>

\* _create_zip_export or _create_folder_export: the export is written, or
\* the writing fails before or after it touched the export path.
ExportWrite ==
    /\ export.pc = "write"
    /\ \/ /\ export' = [Returns(TRUE) EXCEPT !.wrote = TRUE]
          /\ disk' = export.export_type
       \/ /\ export' = [Returns(FALSE) EXCEPT !.wrote = TRUE]
          /\ disk' = "partial"
       \/ /\ export' = Returns(FALSE)
          /\ UNCHANGED disk
    /\ UNCHANGED <<project, BesidesExport>>

NextExport ==
    LoadProject \/ ExportCall \/ ExportValidate \/ ExportCopy \/ ExportWrite

SpecExport == InitExport /\ [][NextExport]_vars

----------------------------------------------------------------------------
\* CacheManager (src/src/utils/performance.py).  A dict is the sequence
\* of its items [k, v] in insertion order.

Keys == {"a", "b", "c"}
Values == {1, 2}

DictKeys(d) == {d[i].k : i \in 1..Len(d)}

DictGet(d, key) == (CHOOSE i \in 1..Len(d) : d[i].k = key)

\* d[key] = value: in place for a key of d, at the end for a new one.
DictSet(d, key, value) ==
    IF key \in DictKeys(d)
    THEN [i \in 1..Len(d) |-> IF d[i].k = key THEN [k |-> key, v |-> value]
                                              ELSE d[i]]
    ELSE Append(d, [k |-> key, v |-> value])

\* del d[key]
DictDel(d, key) == SelectSeq(d, LAMBDA item : item.k # key)

\* min(self.access_times.keys(), key=...): the first key, in the order of
\* the dict, whose access time is the least.
OldestKey(a) ==
    LET i == CHOOSE i \in 1..Len(a) :
                 /\ \A j \in 1..Len(a) : a[i].v <= a[j].v
                 /\ \A j \in 1..(i - 1) : a[j].v > a[i].v
    IN  a[i].k

\* _evict_oldest deleting the key from self.cache alone.
evict_oldest_cache_only(c, a) ==
    IF a = <<>> THEN [cache |-> c, access_times |-> a]
    ELSE [cache |-> DictDel(c, OldestKey(a)), access_times |-> a]

\* _evict_oldest: [cache, access_times] afterwards.
evict_oldest(c, a) ==
    IF a = <<>> THEN [cache |-> c, access_times |-> a]
    ELSE [cache |-> DictDel(c, OldestKey(a)),
          access_times |-> DictDel(a, OldestKey(a))]

\* set(key, value) at time t: [cache, access_times] afterwards.
cache_set(c, a, size, key, value, t) ==
    LET e == IF Len(c) >= size THEN evict_oldest(c, a)
             ELSE [cache |-> c, access_times |-> a]
    IN  [cache |-> DictSet(e.cache, key, value),
         access_times |-> DictSet(e.access_times, key, t)]

\* What time.time() may return: the clock does not go back.
Ticks == {clock} \cup (IF clock < MaxClock THEN {clock + 1} ELSE {})

\* The call just made and the maps it found.
Call(op, key, value) ==
    <<[op |-> op, key |-> key, value |-> value, cache |-> cache,
       access_times |-> access_times]>>

InitCache ==
    /\ errors = <<>>
    /\ warnings = <<>>
    /\ content = <<>>
    /\ ret = FALSE
    /\ report = <<>>
    /\ phase = "NotValidated"
    /\ previous = <<>>
    /\ formatted = <<>>
    /\ threads = NoThreads
    /\ EnhancedIdle
    /\ ExportIdle
    /\ PoolIdle
    /\ max_size \in 1..MaxCacheSize
    /\ cache = <<>>
    /\ access_times = <<>>
    /\ clock = 0
    /\ last = <<>>

BesidesCache == <<Simple, EnhancedVars, ExportVars, PoolVars>>

\* CacheManager.set
CacheSet ==
    /\ \E key \in Keys, value \in Values, t \in Ticks :
          LET after == cache_set(cache, access_times, max_size, key, value, t)
          IN  /\ cache' = after.cache
              /\ access_times' = after.access_times
              /\ clock' = t
              /\ last' = Call("set", key, value)
    /\ UNCHANGED <<max_size, BesidesCache>>

\* CacheManager.get
CacheGet ==
    /\ \E key \in Keys, t \in Ticks :
          /\ access_times' = IF key \in DictKeys(cache)
                             THEN DictSet(access_times, key, t)
                             ELSE access_times
          /\ clock' = IF key \in DictKeys(cache) THEN t ELSE clock
          /\ last' = Call("get", key, 0)
    /\ UNCHANGED <<max_size, cache, BesidesCache>>

\* CacheManager.clear
CacheClear ==
    /\ cache' = <<>>
    /\ access_times' = <<>>
    /\ last' = Call("clear", "", 0)
    /\ UNCHANGED <<max_size, clock, BesidesCache>>

NextCache == CacheSet \/ CacheGet \/ CacheClear

SpecCache == InitCache /\ [][NextCache]_vars

----------------------------------------------------------------------------
\* ThreadPool (src/src/utils/performance.py).  workers holds, for every
\* thread spawned, where it is in _worker_loop and the task it took:
\*   "loop"    at 'while self.running'
\*   "check"   at 'if self.task_queue'
\*   "pop"     at 'self.task_queue.popleft()'
\*   "run"     at 'func(*args, **kwargs)'
\*   "except"  in the except clause
\*   "done"    after the loop: the thread has ended
\* Tasks are numbered in the order of their submission; executed lists
\* the calls of tasks made, with whether the task raised.

Worker(pc, task) == [pc |-> pc, task |-> task]

Live == {w \in 1..Len(workers) : workers[w].pc # "done"}

\* The tasks submitted so far.
Submitted ==
    UNION {{task_queue[i] : i \in 1..Len(task_queue)},
           {workers[w].task : w \in 1..Len(workers)},
           {executed[i].task : i \in 1..Len(executed)}} \ {0}

\* A worker whose thread ends on an exception of a task.
after_exception_uncaught == "done"

\* 'except Exception' logs the error and the loop goes on.
after_exception == "loop"

InitPool ==
    /\ errors = <<>>
    /\ warnings = <<>>
    /\ content = <<>>
    /\ ret = FALSE
    /\ report = <<>>
    /\ phase = "NotValidated"
    /\ previous = <<>>
    /\ formatted = <<>>
    /\ threads = NoThreads
    /\ EnhancedIdle
    /\ ExportIdle
    /\ CacheIdle
    /\ max_workers \in 1..MaxWorkers
    /\ running = FALSE
    /\ task_queue = <<>>
    /\ workers = <<>>
    /\ executed = <<>>

BesidesPool == <<Simple, EnhancedVars, ExportVars, CacheVars>>

\* ThreadPool.start
Start ==
    /\ Len(workers) + max_workers <= MaxThreads
    /\ IF running
       THEN UNCHANGED <<running, workers>>
       ELSE /\ running' = TRUE
            /\ workers' = workers \o [i \in 1..max_workers |-> Worker("loop", 0)]
    /\ UNCHANGED <<max_workers, task_queue, executed, BesidesPool>>

\* ThreadPool.stop
Stop ==
    /\ running' = FALSE
    /\ UNCHANGED <<max_workers, task_queue, workers, executed, BesidesPool>>

\* ThreadPool.submit_task
SubmitTask ==
    /\ Cardinality(Submitted) < MaxTasks
    /\ task_queue' = Append(task_queue, Cardinality(Submitted) + 1)
    /\ UNCHANGED <<max_workers, running, workers, executed, BesidesPool>>

\* while self.running
WorkerLoop(w) ==
    /\ workers[w].pc = "loop"
    /\ workers' = [workers EXCEPT ![w].pc = IF running THEN "check" ELSE "done"]
    /\ UNCHANGED <<max_workers, running, task_queue, executed, BesidesPool>>

\* if self.task_queue: ... else: time.sleep(0.1)
WorkerCheck(w) ==
    /\ workers[w].pc = "check"
    /\ workers' = [workers EXCEPT
                     ![w].pc = IF task_queue # <<>> THEN "pop" ELSE "loop"]
    /\ UNCHANGED <<max_workers, running, task_queue, executed, BesidesPool>>

\* func, args, kwargs = self.task_queue.popleft(): IndexError when the
\* queue was emptied since the test.
WorkerPop(w) ==
    /\ workers[w].pc = "pop"
    /\ IF task_queue = <<>>
       THEN /\ workers' = [workers EXCEPT ![w].pc = "except"]
            /\ UNCHANGED task_queue
       ELSE /\ workers' = [workers EXCEPT ![w] = Worker("run", Head(task_queue))]
            /\ task_queue' = Tail(task_queue)
    /\ UNCHANGED <<max_workers, running, executed, BesidesPool>>

\* func(*args, **kwargs): the task returns or raises.
WorkerRun(w) ==
    /\ workers[w].pc = "run"
    /\ \E raised \in BOOLEAN :
          /\ executed' = Append(executed, [task |-> workers[w].task,
                                           raised |-> raised])
          /\ workers' = [workers EXCEPT
                           ![w] = Worker(IF raised THEN "except" ELSE "loop", 0)]
    /\ UNCHANGED <<max_workers, running, task_queue, BesidesPool>>

\* except Exception as e: self.logger.error(...)
WorkerExcept(w) ==
    /\ workers[w].pc = "except"
    /\ workers' = [workers EXCEPT ![w].pc = after_exception]
    /\ UNCHANGED <<max_workers, running, task_queue, executed, BesidesPool>>

\* A step of thread w.
WorkerStep(w) ==
    /\ w \in 1..Len(workers)
    /\ \/ WorkerLoop(w)
       \/ WorkerCheck(w)
       \/ WorkerPop(w)
       \/ WorkerRun(w)
       \/ WorkerExcept(w)

NextPool ==
    \/ Start
    \/ Stop
    \/ SubmitTask
    \/ \E w \in 1..Len(workers) : WorkerLoop(w)
    \/ \E w \in 1..Len(workers) : WorkerCheck(w)
    \/ \E w \in 1..Len(workers) : WorkerPop(w)
    \/ \E w \in 1..Len(workers) : WorkerRun(w)
    \/ \E w \in 1..Len(workers) : WorkerExcept(w)

SpecPool == InitPool /\ [][NextPool]_vars

\* Every thread that has not ended goes on running.
SpecPoolFair ==
    SpecPool /\ \A w \in 1..MaxThreads : WF_vars(WorkerStep(w))

----------------------------------------------------------------------------
\* A document, and then the same document with one more element in it.

\* Tags outside the knowledge table: one that gets a warning, one that
\* ends in 'Def' and gets none.
UnknownTags == {"zzz", "HediffDef"}

\* The text toks with an empty element of tag u put after its token i.
Insert(toks, i, u) ==
    SubSeq(toks, 1, i) \o <<Open(u), Close(u)>> \o SubSeq(toks, i + 1, Len(toks))

\* The well-formed documents of a session that begin with their root's
\* start tag.
BaseDocs == {c \in SessionDocs : ParseXML(c).ok /\ c[1].k = "open"}

InitAdd ==
    /\ errors = <<>>
    /\ warnings = <<>>
    /\ content \in BaseDocs
    /\ ret = FALSE
    /\ report = <<>>
    /\ phase = "NotValidated"
    /\ previous = <<>>
    /\ formatted = <<>>
    /\ threads = NoThreads
    /\ RestIdle

\* The document validated again with an element of an unknown tag added
\* somewhere inside its root.
ValidateAdded ==
    /\ phase = "Validated"
    /\ previous = <<>>
    /\ \E i \in 1..(Len(content) - 1), u \in UnknownTags :
           ValidateContent(Insert(content, i, u))

NextAdd == ValidateGiven \/ ValidateAdded

SpecAdd == InitAdd /\ [][NextAdd]_vars

----------------------------------------------------------------------------
\* What the properties speak of.

Validated == phase = "Validated"

\* The most recent input is well-formed XML.
WellFormed == ParseXML(content).ok

\* The root element of the most recent input, when it is well-formed.
Root == ParseXML(content).root[1]

IsMetaDoc == WellFormed /\ Root.tag = "ModMetaData"

IsDefsDoc == WellFormed /\ Root.tag = "Defs"

Absent(t) == Find(Root, t) = <<>>

\* The children a metadata document must have.
RequiredChildren == {"name", "author", "packageId", "supportedVersions"}

\* The text of the document's packageId element.
PackageIdText == Find(Root, "packageId")[1].text

HasPackageId == IsMetaDoc /\ ~Absent("packageId")

KindCount(seq, kind) == Cardinality({i \in 1..Len(seq) : seq[i].kind = kind})

\* Two non-empty segments of letters, digits or underscores joined by one
\* dot, and nothing else.
TwoSegments(s) ==
    LET dots == {i \in 1..Len(s) : s[i] = "."}
    IN  /\ Cardinality(dots) = 1
        /\ 1 \notin dots
        /\ Len(s) \notin dots
        /\ \A i \in (1..Len(s)) \ dots :
              s[i] \in LowerCase \cup UpperCase \cup Digits \cup {"_"}

HasUpperCase(s) == \E i \in 1..Len(s) : s[i] \in UpperCase

\* The children of the Defs root without a defName child, with a defName
\* child of empty text, and with a defName child of whitespace only.
NoDefNameDefs ==
    {i \in 1..Len(Root.children) : Find(Root.children[i], "defName") = <<>>}

DefNameText(i) == Find(Root.children[i], "defName")[1].text

EmptyDefNameDefs ==
    {i \in (1..Len(Root.children)) \ NoDefNameDefs : DefNameText(i) = <<>>}

BlankDefNameDefs ==
    {i \in (1..Len(Root.children)) \ NoDefNameDefs :
        DefNameText(i) # <<>> /\ IsWhitespace(DefNameText(i))}

\* The pairs of sibling definitions with the same, non-empty, defName text.
SameDefNamePairs ==
    {p \in (1..Len(Root.children)) \X (1..Len(Root.children)) :
        /\ p[1] < p[2]
        /\ p[1] \notin NoDefNameDefs
        /\ p[2] \notin NoDefNameDefs
        /\ DefNameText(p[1]) # <<>>
        /\ DefNameText(p[1]) = DefNameText(p[2])}

----------------------------------------------------------------------------
\* Properties.

\* C1: after a call whose input is not well-formed XML, the call returned
\* false, the errors are exactly one syntax error and the warnings are
\* empty, whatever the instance held before; the report read afterwards
\* says the same.
C1_MalformedStopsAtSyntax ==
    (Validated /\ ~WellFormed) =>
        /\ ret = FALSE
        /\ Len(errors) = 1
        /\ errors[1].kind = "SyntaxError"
        /\ warnings = <<>>
        /\ report # <<>> =>
              /\ report[1].valid = FALSE
              /\ report[1].error_count = 1
              /\ report[1].errors = errors
              /\ report[1].warnings = <<>>

\* A malformed input validated on an instance that held errors and warnings
\* of an earlier call, and the report read.
C1_Witness ==
    /\ Validated /\ ~WellFormed /\ content # <<>>
    /\ previous # <<>>
    /\ previous[1].errors # <<>> /\ previous[1].warnings # <<>>
    /\ report # <<>>

\* C2: the value validate_content returned is true exactly when the errors
\* list is empty after the call, and the report read after the call has
\* that value as its 'valid' field; warnings play no part.
C2_ReturnIffNoErrors ==
    Validated =>
        /\ ret = (errors = <<>>)
        /\ report # <<>> => report[1].valid = ret

\* A valid document with warnings, and its report read.
C2_Witness ==
    Validated /\ ret /\ warnings # <<>> /\ report # <<>> /\ report[1].valid

\* C3: a well-formed ModMetaData document with the children name, author,
\* packageId and supportedVersions whose packageId is two segments joined by
\* a dot is valid and has no errors.
C3_CompleteMetadataValid ==
    (/\ Validated /\ IsMetaDoc
     /\ \A t \in RequiredChildren : ~Absent(t)
     /\ TwoSegments(PackageIdText)) =>
        /\ ret = TRUE
        /\ errors = <<>>

\* Such a document, valid though it has a warning.
C3_Witness ==
    /\ Validated /\ IsMetaDoc
    /\ \A t \in RequiredChildren : ~Absent(t)
    /\ TwoSegments(PackageIdText)
    /\ warnings # <<>>
    /\ ret = TRUE

\* C4: in a ModMetaData document each of name, author, packageId,
\* supportedVersions that is not a child of the root has exactly one
\* 'missing required tag' error naming it, and the document is invalid when
\* one of them is absent.
C4_MissingRequiredTag ==
    (Validated /\ IsMetaDoc) =>
        \A t \in RequiredChildren :
            Absent(t) =>
                /\ Count(errors, Msg("MissingTag", <<t>>)) = 1
                /\ ret = FALSE

\* A metadata document that lacks author and supportedVersions only.
C4_Witness ==
    /\ Validated /\ IsMetaDoc
    /\ Absent("author") /\ Absent("supportedVersions")
    /\ ~Absent("name") /\ ~Absent("packageId")
    /\ KindCount(errors, "MissingTag") = 2

\* C5: a packageId is accepted exactly when its whole text is two non-empty
\* segments of letters, digits or underscores joined by one dot; any other
\* text, an empty one too, has a packageId-format error and makes the
\* document invalid.
C5_PackageIdExact ==
    (Validated /\ HasPackageId) =>
        /\ TwoSegments(PackageIdText) =>
              KindCount(errors, "BadPackageId") = 0
        /\ ~TwoSegments(PackageIdText) =>
              /\ Count(errors, Msg("BadPackageId", PackageIdText)) = 1
              /\ ret = FALSE

\* C6, as claimed: a packageId with an uppercase letter has a
\* packageId-format error and makes the document invalid.
C6_UppercaseRejected ==
    (Validated /\ HasPackageId /\ HasUpperCase(PackageIdText)) =>
        /\ KindCount(errors, "BadPackageId") = 1
        /\ ret = FALSE

\* C6, amended: uppercase letters are allowed in the segments: a packageId
\* of two non-empty segments joined by one dot that has an uppercase letter
\* has no packageId-format error, and the document is valid when the four
\* required children are there.
C6_UppercaseAccepted ==
    (/\ Validated /\ HasPackageId
     /\ HasUpperCase(PackageIdText) /\ TwoSegments(PackageIdText)) =>
        /\ KindCount(errors, "BadPackageId") = 0
        /\ (\A t \in RequiredChildren : ~Absent(t)) =>
              ret = TRUE

\* A valid metadata document whose packageId has uppercase letters only.
C6_Witness ==
    /\ Validated /\ HasPackageId
    /\ TwoSegments(PackageIdText)
    /\ \A i \in 1..Len(PackageIdText) :
          PackageIdText[i] = "." \/ PackageIdText[i] \in UpperCase
    /\ ret = TRUE

\* C7: in a Defs document where two sibling definitions have the same
\* defName text there is exactly one 'duplicate defName' error, naming
\* that text, and the document is invalid.
C7_DuplicateDefName ==
    (Validated /\ IsDefsDoc /\ Cardinality(SameDefNamePairs) = 1) =>
        /\ KindCount(errors, "DuplicateDefName") = 1
        /\ \A p \in SameDefNamePairs :
              Count(errors, Msg("DuplicateDefName", DefNameText(p[1]))) = 1
        /\ ret = FALSE

\* C8: under a Defs root every child without a defName child has a
\* 'no defName' error and every child whose defName has empty text has an
\* 'empty defName' error, whatever the child's tag; no child has both, and
\* either error makes the document invalid.
C8_DefNameRequired ==
    (Validated /\ IsDefsDoc) =>
        /\ \A i \in NoDefNameDefs :
              Count(errors, Msg("NoDefName", <<Root.children[i].tag>>)) >= 1
        /\ \A i \in EmptyDefNameDefs :
              Count(errors, Msg("EmptyDefName", <<Root.children[i].tag>>)) >= 1
        /\ KindCount(errors, "NoDefName") = Cardinality(NoDefNameDefs)
        /\ KindCount(errors, "EmptyDefName") = Cardinality(EmptyDefNameDefs)
        /\ (NoDefNameDefs \cup EmptyDefNameDefs # {}) => ret = FALSE

\* A Defs document with a child of an unknown tag that has no defName and a
\* definition whose defName is empty.
C8_Witness ==
    /\ Validated /\ IsDefsDoc
    /\ \E i \in NoDefNameDefs : Root.children[i].tag = "comps"
    /\ EmptyDefNameDefs # {}
    /\ ret = FALSE

\* C9: under a Defs root a definition whose defName is there but holds
\* whitespace only has the 'empty defName' error, and the document is
\* invalid.
C9_BlankDefNameRejected ==
    (Validated /\ IsDefsDoc) =>
        \A i \in BlankDefNameDefs :
            /\ Count(errors, Msg("EmptyDefName", <<Root.children[i].tag>>)) >= 1
            /\ ret = FALSE

\* C10: a call with the same input as the call before it on the same
\* instance returns the same value and leaves the same errors and warnings.
C10_Idempotent ==
    (Validated /\ previous # <<>> /\ previous[1].content = content) =>
        /\ ret = previous[1].ret
        /\ errors = previous[1].errors
        /\ warnings = previous[1].warnings

\* The same document validated twice in a row, with errors and warnings.
C10_Witness ==
    /\ Validated /\ previous # <<>> /\ previous[1].content = content
    /\ errors # <<>> /\ warnings # <<>>

\* What a new instance holds after validating the most recent input.
Alone == validate_content([errors |-> <<>>, warnings |-> <<>>], content).self

\* C11: after any calls of validate_content and validate_file the report
\* holds exactly what the most recent call produced: the issues of its
\* input, or the read error alone when it could not read its file.
C11_OnlyTheLastCall ==
    report # <<>> =>
        /\ phase = "Validated" =>
              /\ report[1].errors = Alone.errors
              /\ report[1].warnings = Alone.warnings
        /\ phase = "ReadFailed" =>
              /\ report[1].errors = <<Msg("ReadError", <<>>)>>
              /\ report[1].warnings = <<>>

\* C19: a report has valid true exactly when its errors are empty, and its
\* two counts are the lengths of its two lists, after any calls.
C19_ReportConsistent ==
    report # <<>> =>
        /\ report[1].valid = (report[1].errors = <<>>)
        /\ report[1].error_count = Len(report[1].errors)
        /\ report[1].warning_count = Len(report[1].warnings)
        /\ report[1].errors = errors
        /\ report[1].warnings = warnings

\* A report with one error and warnings, read after a validate_file that
\* could not read its file.
C19_Witness ==
    /\ report # <<>>
    /\ phase = "ReadFailed"
    /\ report[1].error_count = 1
    /\ report[1].warning_count >= 1
    /\ ~report[1].valid

\* The place of the heading of a section in a formatted text, as a set.
Headings(f, what) == {i \in 1..Len(f) : f[i].what = what}

\* The section of list starts at line h of f: its heading, then every entry
\* of the list once, in order, numbered from 1.
SectionAt(f, h, what, list) ==
    /\ h + Len(list) <= Len(f)
    /\ f[h] = Line(what, 0, <<>>)
    /\ \A i \in 1..Len(list) : f[h + i] = Line("item", i, <<list[i]>>)

\* C20: the formatted report is, in this order: a banner that says valid
\* exactly when report.valid; the errors section exactly when there are
\* errors; the warnings section exactly when there are warnings, each with
\* every entry once, in order, numbered from 1; the 'no issues' line exactly
\* when both lists are empty.  The report and the instance are as before.
C20_FormatReport ==
    formatted # <<>> =>
        LET f == formatted[1]
            r == report[1]
            ne == IF r.errors = <<>> THEN 0 ELSE Len(r.errors) + 1
            nw == IF r.warnings = <<>> THEN 0 ELSE Len(r.warnings) + 1
            nn == IF r.errors = <<>> /\ r.warnings = <<>> THEN 1 ELSE 0
        IN  /\ Len(f) = 1 + ne + nw + nn
            /\ f[1] = Line(IF r.valid THEN "valid" ELSE "has errors", 0, <<>>)
            /\ ne > 0 => SectionAt(f, 2, "errors:", r.errors)
            /\ nw > 0 => SectionAt(f, 2 + ne, "warnings:", r.warnings)
            /\ nn > 0 => f[Len(f)] = Line("no issues", 0, <<>>)
            /\ Cardinality(Headings(f, "errors:")) = (IF ne > 0 THEN 1 ELSE 0)
            /\ Cardinality(Headings(f, "warnings:")) = (IF nw > 0 THEN 1 ELSE 0)
            /\ Cardinality(Headings(f, "no issues")) = nn
            /\ r = get_validation_report(Self)

\* A formatted report with an errors section and a warnings section.
C20_Witness ==
    /\ formatted # <<>>
    /\ report[1].error_count >= 1
    /\ report[1].warning_count >= 2
    /\ Len(formatted[1]) = 3 + report[1].error_count + report[1].warning_count

\* A formatted report of a document without issues.
C20_WitnessNoIssues ==
    /\ formatted # <<>>
    /\ report[1].valid /\ report[1].warnings = <<>>
    /\ Len(formatted[1]) = 2

\* What a call of its own on a new instance gives caller t.
Own(t) ==
    validate_content([errors |-> <<>>, warnings |-> <<>>], threads[t].content)

\* C12: in every interleaving of two calls on one instance each caller gets
\* the return value of its own input, and the report it reads after its
\* call holds the issues of its own input and no others.
C12_CallsDoNotInterfere ==
    \A t \in DOMAIN threads :
        /\ threads[t].pc \in {"returned", "done"} =>
              threads[t].ret = Own(t).ret
        /\ threads[t].pc = "done" =>
              /\ threads[t].report[1].errors = Own(t).self.errors
              /\ threads[t].report[1].warnings = Own(t).self.warnings

\* The document validated before the present one.
Before == previous[1]

\* The ways the present document is the one before it with one element of
\* an unknown tag added.
Additions ==
    IF previous = <<>> THEN {}
    ELSE {a \in [i : 1..(Len(Before.content) - 1), u : UnknownTags] :
             content = Insert(Before.content, a.i, a.u)}

\* The number of elements open after token i of toks.
RECURSIVE DepthAfter(_, _)
DepthAfter(toks, i) ==
    IF i = 0 THEN 0
    ELSE DepthAfter(toks, i - 1)
         + (CASE toks[i].k = "open" -> 1
              [] toks[i].k = "close" -> -1
              [] OTHER -> 0)

\* An element put after token i becomes an immediate child of a Defs root.
ChildOfDefs(toks, i) == toks[1].tag = "Defs" /\ DepthAfter(toks, i) = 1

\* An element put after token i stands between a start tag and the
\* character data that follows it.
BeforeText(toks, i) == toks[i].k = "open" /\ toks[i + 1].k = "text"

\* C13 as stated: a document with an element of an unknown tag added
\* anywhere has no more errors than the document without it, and the same
\* validity.
C13_UnknownNeverAddsError ==
    (Validated /\ Additions # {}) =>
        /\ Len(errors) <= Len(Before.errors)
        /\ ret = Before.ret

\* C13, amended: an element of an unknown tag added anywhere except as an
\* immediate child of a Defs root or between a start tag and its character
\* data leaves the errors and the validity as they were; it adds one
\* unknown-tag warning unless its tag ends in 'Def', and no other warning
\* comes or goes.
C13_UnknownAddsWarningsOnly ==
    Validated =>
        \A a \in Additions :
            (~ChildOfDefs(Before.content, a.i) /\ ~BeforeText(Before.content, a.i)) =>
                /\ errors = Before.errors
                /\ ret = Before.ret
                /\ \A k \in {"UnusualRoot", "NoLabel", "EmptySupportedVersions",
                             "EmptyDefs"} :
                       KindCount(warnings, k) = KindCount(Before.warnings, k)
                /\ KindCount(warnings, "UnknownTag")
                     = KindCount(Before.warnings, "UnknownTag")
                       + (IF EndsWithDef(a.u) THEN 0 ELSE 1)

\* An unknown element added two levels down in a valid document: one more
\* warning, still valid.
C13_Witness ==
    /\ Validated
    /\ \E a \in Additions :
          /\ ~ChildOfDefs(Before.content, a.i)
          /\ ~BeforeText(Before.content, a.i)
          /\ DepthAfter(Before.content, a.i) >= 2
          /\ a.u = "zzz"
    /\ ret /\ Before.ret
    /\ Len(warnings) = Len(Before.warnings) + 1

\* An unknown element added to a document that has errors, which stay.
C13_WitnessInvalid ==
    /\ Validated
    /\ \E a \in Additions :
          ~ChildOfDefs(Before.content, a.i) /\ ~BeforeText(Before.content, a.i)
    /\ ~ret
    /\ errors # <<>>

\* The paths of the elements of toks, from token i on, that are outside
\* the knowledge table and not exempt, in the order of their start tags;
\* path is the tags of the elements open before token i.
RECURSIVE UnknownPaths(_, _, _)
UnknownPaths(toks, i, path) ==
    IF i > Len(toks) THEN <<>>
    ELSE CASE toks[i].k = "open" ->
                LET here == Append(path, toks[i].tag)
                IN  (IF /\ toks[i].tag \notin rimworld_tags
                        /\ toks[i].tag \notin {"li", "count"}
                        /\ ~EndsWithDef(toks[i].tag)
                     THEN <<here>> ELSE <<>>)
                    \o UnknownPaths(toks, i + 1, here)
           [] toks[i].k = "close" ->
                UnknownPaths(toks, i + 1, SubSeq(path, 1, Len(path) - 1))
           [] OTHER -> UnknownPaths(toks, i + 1, path)

\* The paths of the unknown-tag warnings, in the order of the warnings.
WarnedPaths ==
    LET w == SelectSeq(warnings, LAMBDA m : m.kind = "UnknownTag")
    IN  [i \in 1..Len(w) |-> w[i].arg]

\* C14: after a well-formed document is validated there is one unknown-tag
\* warning for each element, at any depth, whose tag is outside the
\* knowledge table, is not li or count and does not end in 'Def'; it names
\* the tags from the root down to the element; there is no other
\* unknown-tag warning.
C14_UnknownTagWalk ==
    (Validated /\ WellFormed) =>
        LET expected == UnknownPaths(content, 1, <<>>)
        IN  /\ Len(WarnedPaths) = Len(expected)
            /\ \A i \in 1..Len(expected) :
                   Count(WarnedPaths, expected[i]) = Count(expected, expected[i])

\* Unknown elements three and four levels down, two of them at one path,
\* beside an exempt one.
C14_Witness ==
    /\ Validated /\ WellFormed
    /\ \E i \in 1..Len(WarnedPaths) : Len(WarnedPaths[i]) = 4
    /\ \E i \in 1..Len(WarnedPaths) : Len(WarnedPaths[i]) = 3
    /\ \E i \in 1..Len(content) : content[i] = Open("HediffDef")

\* Two unknown elements at one path: two warnings.
C14_WitnessRepeated ==
    /\ Validated /\ WellFormed
    /\ \E i, j \in 1..Len(WarnedPaths) : i # j /\ WarnedPaths[i] = WarnedPaths[j]

\* The messages of the metadata and the definitions checks.
StructuralKinds ==
    {"MissingTag", "BadPackageId", "NoDefName", "EmptyDefName",
     "NoLabel", "EmptySupportedVersions", "EmptyDefs"}

\* C15: a well-formed document whose root is neither ModMetaData nor Defs
\* gets one unusual-root warning naming its root, no message of the
\* metadata or definitions checks, no error, and is valid.
C15_UnusualRoot ==
    (Validated /\ WellFormed /\ Root.tag \notin {"ModMetaData", "Defs"}) =>
        /\ Count(warnings, Msg("UnusualRoot", <<Root.tag>>)) = 1
        /\ KindCount(warnings, "UnusualRoot") = 1
        /\ \A k \in StructuralKinds :
               KindCount(warnings, k) = 0 /\ KindCount(errors, k) = 0
        /\ errors = <<>>
        /\ ret

\* A Patch document holding a bad packageId and an empty supportedVersions.
C15_Witness ==
    /\ Validated /\ WellFormed
    /\ Root.tag = "Patch"
    /\ Find(Root, "packageId") # <<>>
    /\ ~validate_package_id(Find(Root, "packageId")[1].text)
    /\ Find(Root, "supportedVersions") # <<>>
    /\ ret

\* The supportedVersions child is there and has no li child.
EmptyVersions ==
    /\ ~Absent("supportedVersions")
    /\ LET v == Find(Root, "supportedVersions")[1]
       IN  \A i \in 1..Len(v.children) : v.children[i].tag # "li"

\* The packageId child is there and its text is not of the stated form.
MalformedPackageId == ~Absent("packageId") /\ ~TwoSegments(PackageIdText)

\* The number of things wrong with a metadata document.
ViolationCount ==
    Cardinality({t \in RequiredChildren : Absent(t)})
    + (IF MalformedPackageId THEN 1 ELSE 0)
    + (IF EmptyVersions THEN 1 ELSE 0)

\* C16: a ModMetaData document with several violations at once has every
\* one of them reported by the one call: an error for each missing required
\* child, a packageId-format error for a malformed packageId, a warning for
\* a supportedVersions without li, and valid is false when there is an error
\* among them.
C16_AllCollected ==
    (Validated /\ IsMetaDoc /\ ViolationCount >= 2) =>
        /\ \A t \in RequiredChildren :
               Absent(t) => Count(errors, Msg("MissingTag", <<t>>)) = 1
        /\ MalformedPackageId =>
               Count(errors, Msg("BadPackageId", PackageIdText)) = 1
        /\ EmptyVersions =>
               Count(warnings, Msg("EmptySupportedVersions", <<>>)) = 1
        /\ (MalformedPackageId \/ \E t \in RequiredChildren : Absent(t)) =>
               ret = FALSE

\* The types of definition that should carry a label.
VisibleDefs == {"ThingDef", "RecipeDef", "ResearchProjectDef"}

\* The children of the Defs root of tag t that have no label child.
Unlabelled(t) ==
    {i \in 1..Len(Root.children) :
        Root.children[i].tag = t /\ Find(Root.children[i], "label") = <<>>}

\* C17: in a Defs document each ThingDef, RecipeDef or ResearchProjectDef
\* without a label child has one missing-label warning and there is no
\* other missing-label warning; a missing label is never an error, and a
\* document whose definitions all have a defName, not blank and not shared,
\* is valid whatever labels are missing.
C17_MissingLabelWarns ==
    (Validated /\ IsDefsDoc) =>
        /\ \A t \in {Root.children[i].tag : i \in 1..Len(Root.children)} :
               Count(warnings, Msg("NoLabel", <<t>>))
                 = (IF t \in VisibleDefs THEN Cardinality(Unlabelled(t)) ELSE 0)
        /\ KindCount(warnings, "NoLabel")
             = Cardinality(UNION {Unlabelled(t) : t \in VisibleDefs})
        /\ KindCount(errors, "NoLabel") = 0
        /\ (/\ NoDefNameDefs = {} /\ EmptyDefNameDefs = {}
            /\ BlankDefNameDefs = {} /\ SameDefNamePairs = {}) => ret

\* A RecipeDef and a TraitDef, both named and neither labelled: one
\* warning, valid.
C17_Witness ==
    /\ Validated /\ IsDefsDoc
    /\ Unlabelled("RecipeDef") # {}
    /\ Unlabelled("TraitDef") # {}
    /\ NoDefNameDefs = {} /\ EmptyDefNameDefs = {}
    /\ BlankDefNameDefs = {} /\ SameDefNamePairs = {}
    /\ KindCount(warnings, "NoLabel") = 1
    /\ ret

\* C18: in a ModMetaData document a supportedVersions child without an li
\* child gets one warning and no error, and with an li child no such
\* warning; a complete document with a well-formed packageId whose
\* supportedVersions has no li is valid.
C18_EmptyVersionsWarns ==
    (Validated /\ IsMetaDoc) =>
        /\ KindCount(errors, "EmptySupportedVersions") = 0
        /\ KindCount(warnings, "EmptySupportedVersions")
             = (IF EmptyVersions THEN 1 ELSE 0)
        /\ (/\ EmptyVersions
            /\ \A t \in RequiredChildren : ~Absent(t)
            /\ TwoSegments(PackageIdText)) =>
               errors = <<>> /\ ret

\* A complete document whose supportedVersions holds an element that is
\* not li: one warning, valid.
C18_Witness ==
    /\ Validated /\ IsMetaDoc
    /\ EmptyVersions
    /\ Find(Root, "supportedVersions")[1].children # <<>>
    /\ \A t \in RequiredChildren : ~Absent(t)
    /\ TwoSegments(PackageIdText)
    /\ KindCount(warnings, "EmptySupportedVersions") = 1
    /\ ret

\* A supportedVersions with two li: no warning.
C18_WitnessVersions ==
    /\ Validated /\ IsMetaDoc
    /\ ~Absent("supportedVersions")
    /\ Len(Find(Root, "supportedVersions")[1].children) = 2
    /\ warnings = <<>>

\* The dictionary the enhanced validator's method returned, when it was
\* the one called.
Called(call) == result # <<>> /\ result[1].call = call

Value == result[1].value

\* C21: an empty text and a text of white space only are rejected by
\* SimpleXMLValidator.validate_content and by
\* EnhancedXMLValidator.validate_rimworld_structure alike: invalid, exactly
\* one error, and nothing of the structural checks.
C21_BlankRejected ==
    IsBlank(content) =>
        /\ Validated =>
              /\ ret = FALSE
              /\ Len(errors) = 1
              /\ errors[1].kind = "SyntaxError"
              /\ warnings = <<>>
        /\ Called("validate_rimworld_structure") =>
              /\ ~Value.valid
              /\ Len(Value.errors) = 1
              /\ Value.warnings = <<>>

\* A text of white space given to the enhanced validator.
C21_Witness ==
    /\ IsBlank(content) /\ content # <<>>
    /\ Called("validate_rimworld_structure")
    /\ Value.errors = <<Msg("EmptyFile", <<>>)>>

\* A text of white space given to the simple validator.
C21_WitnessSimple ==
    /\ IsBlank(content) /\ content # <<>>
    /\ Validated /\ ~ret

\* The elements, at any depth, whose tag ends in 'Def' and whose defName
\* child has the text v.
DefsNamed(v) ==
    {i \in 1..Len(Iter(Root)) :
        /\ EndsWithDef(Iter(Root)[i].tag)
        /\ Find(Iter(Root)[i], "defName") # <<>>
        /\ Find(Iter(Root)[i], "defName")[1].text = v}

\* The non-empty defName texts of the document.
DefNameTexts ==
    {Find(Iter(Root)[i], "defName")[1].text :
        i \in {j \in 1..Len(Iter(Root)) : Find(Iter(Root)[j], "defName") # <<>>}}
    \ {<<>>}

\* C22: validate_rimworld_structure of the enhanced validator reports, for
\* a defName text that k >= 2 elements with a tag ending in 'Def' have,
\* exactly k - 1 duplicate errors and valid false; texts that only one such
\* element has get no duplicate error.
C22_DuplicatesDetected ==
    (Called("validate_rimworld_structure") /\ WellFormed) =>
        /\ \A v \in DefNameTexts :
              LET k == Cardinality(DefsNamed(v))
              IN  /\ Count(Value.errors, Msg("DuplicateDefName", v))
                       = (IF k >= 2 THEN k - 1 ELSE 0)
                  /\ k >= 2 => ~Value.valid
        /\ KindCount(Value.errors, "DuplicateDefName") > 0 =>
              \E v \in DefNameTexts : Cardinality(DefsNamed(v)) >= 2

\* Three definitions, the first and the last of the same name and another
\* between them.
C22_Witness ==
    /\ Called("validate_rimworld_structure") /\ WellFormed
    /\ Root.tag = "Defs" /\ Len(Root.children) = 3
    /\ Cardinality(DefsNamed(<<"A">>)) = 2
    /\ Find(Root.children[1], "defName") # <<>>
    /\ Find(Root.children[2], "defName") # <<>>
    /\ Find(Root.children[1], "defName")[1].text = <<"A">>
    /\ Find(Root.children[2], "defName")[1].text = <<"B">>
    /\ Count(Value.errors, Msg("DuplicateDefName", <<"A">>)) = 1

\* One name on three definitions: two errors.
C22_WitnessThree ==
    /\ Called("validate_rimworld_structure") /\ WellFormed
    /\ Cardinality(DefsNamed(<<"A">>)) = 3
    /\ Count(Value.errors, Msg("DuplicateDefName", <<"A">>)) = 2

\* C23: in every dictionary validate_xml_syntax, validate_rimworld_structure
\* and validate_def_structure of the enhanced validator return, valid is
\* true exactly when errors is empty, whatever warnings and info hold.
C23_ValidIffNoErrors ==
    result # <<>> => (Value.valid <=> Value.errors = <<>>)

\* A definition without defName checked by validate_def_structure: an error
\* beside warnings, invalid.
C23_Witness ==
    /\ Called("validate_def_structure")
    /\ KindCount(Value.errors, "NoDefName") > 0
    /\ Value.warnings # <<>>
    /\ ~Value.valid

\* Warnings and info and no error: valid.
C23_WitnessWarnings ==
    /\ Called("validate_rimworld_structure")
    /\ Value.warnings # <<>> /\ Value.info # <<>>
    /\ Value.valid

\* C24: the report read from a SimpleXMLValidator before any validation
\* call does not say valid.
C24_NoValidBeforeValidation ==
    (phase = "NotValidated" /\ report # <<>>) => ~report[1].valid

\* C25: for a well-formed text format_xml returns a text that begins with
\* an XML declaration.
C25_FormatHasDeclaration ==
    (pretty # <<>> /\ WellFormed) =>
        pretty[1] # <<>> /\ pretty[1][1].k = "decl"

\* validate_project returned valid in the invocation of export_mod under
\* way.
ValidationPassed ==
    export.loaded /\ export.validation # <<>> /\ export.validation[1].valid

\* C26: an invocation of export_mod with no project loaded, or in which
\* validate_project returned valid false, returns False and copies and
\* writes nothing; files are copied and the export path is written only
\* after validate_project returned valid true in the same invocation.
C26_ExportOnlyAfterValidation ==
    /\ [](/\ (export.pc = "returned" /\ ~ValidationPassed) =>
                /\ export.ret = <<FALSE>>
                /\ ~export.copied
                /\ ~export.wrote
          /\ (export.copied \/ export.wrote \/ export.pc \in {"copy", "write"}) =>
                ValidationPassed
          /\ export.ret = <<TRUE>> => ValidationPassed /\ export.wrote)
    /\ [][disk' # disk => ValidationPassed /\ export.copied]_vars

\* An export refused for an invalid About.xml, with the export of an
\* earlier invocation still at the export path.
C26_Witness ==
    /\ export.pc = "returned"
    /\ export.validation # <<>>
    /\ KindCount(export.validation[1].errors, "XmlError") = 1
    /\ export.ret = <<FALSE>>
    /\ disk = "folder"

\* An export written.
C26_WitnessExported ==
    /\ export.pc = "returned"
    /\ export.ret = <<TRUE>>
    /\ export.validation[1].warnings # <<>>
    /\ disk = "zip"

\* C27: a cache built with max_size >= 1 never holds more than max_size
\* entries, and the value map and the access-time map have the same keys.
C27_CacheBounded ==
    max_size >= 1 =>
       /\ Len(cache) <= max_size
       /\ Cardinality(DictKeys(cache)) = Len(cache)
       /\ Len(access_times) = Len(cache)
       /\ DictKeys(cache) = DictKeys(access_times)

\* A new key was set in a full cache of two entries.
C27_Witness ==
    /\ last # <<>>
    /\ last[1].op = "set"
    /\ max_size = 2
    /\ Len(last[1].cache) = 2
    /\ last[1].key \notin DictKeys(last[1].cache)
    /\ Len(cache) = 2

Items(d) == {d[i] : i \in 1..Len(d)}

\* The items whose access time is the least.
Oldest(c, a) ==
    {item \in Items(c) :
       \A j \in 1..Len(a) : a[DictGet(a, item.k)].v <= a[j].v}

\* C28: set(k, v) for a key already cached replaces k's value and leaves
\* every other entry as it was, also in a full cache; set of a new key in
\* a full cache removes exactly one entry, one with the oldest last access.
C28_SetEvictsOnlyForNewKey ==
    (last # <<>> /\ last[1].op = "set") =>
       LET before == last[1].cache
           new == [k |-> last[1].key, v |-> last[1].value]
       IN  IF new.k \in DictKeys(before)
           THEN Items(cache) =
                  {item \in Items(before) : item.k # new.k} \cup {new}
           ELSE IF Len(before) >= max_size
           THEN \E gone \in Oldest(before, last[1].access_times) :
                  Items(cache) = (Items(before) \ {gone}) \cup {new}
           ELSE Items(cache) = Items(before) \cup {new}

Executions(task) ==
    Cardinality({i \in 1..Len(executed) : executed[i].task = task})

\* C29: whatever the interleaving of the workers, a submitted task is
\* executed at most once, and, the threads being scheduled fairly, a
\* submitted task is executed in the end unless the pool stops running,
\* also after a task raised and after a worker found the queue emptied
\* between its test and its popleft.
C29_TasksExecutedOnce ==
    /\ [](\A task \in 1..MaxTasks : Executions(task) <= 1)
    /\ \A task \in 1..MaxTasks :
          (task \in Submitted /\ running) ~>
             (Executions(task) = 1 \/ ~running)

\* A worker is in the except clause for the IndexError of popleft, a task
\* has raised, and the pool is running.
C29_Witness ==
    /\ running
    /\ \E w \in 1..Len(workers) :
          workers[w].pc = "except" /\ workers[w].task = 0
    /\ \E i \in 1..Len(executed) : executed[i].raised
    /\ Cardinality(Submitted) = MaxTasks

\* Every task was executed after one of them raised.
C29_WitnessAllExecuted ==
    /\ running
    /\ Len(executed) = MaxTasks
    /\ executed[1].raised

\* C30: no more than max_workers threads are running _worker_loop,
\* whatever the calls of start and stop.
C30_LiveWorkersBounded == Cardinality(Live) <= max_workers

====
